---- MODULE Spec2Model ----
(***************************************************************************)
(* Streaming PGN ingestion of DataBases/chess_parser.py                    *)
(* (OptimizedPGNParser) on top of the storage back ends of                 *)
(* DataBases/chess_database.py (MongoDB) and                               *)
(* DataBases/portable_database.py (SQLite).                                *)
(***************************************************************************)
EXTENDS Integers, Sequences, FiniteSets, TLC

\* ------------------------------------------------------------------ bounds
MaxBlocks == 2        \* blocks per input stream
MaxFaults == 1        \* back-end write faults per run
MaxObs == 3           \* direct get_or_create_player calls (SpecPlayers)
MaxRuns == 2          \* ingest_pgn_file calls on one parser instance (SpecRuns)

\* ------------------------------------------------------- helper functions
Max(a, b) == IF a >= b THEN a ELSE b

EmptyMap == [x \in {} |-> 0]

Last(s) == s[Len(s)]

RECURSIVE Concat(_)
Concat(ss) == IF ss = <<>> THEN <<>> ELSE Head(ss) \o Concat(Tail(ss))

\* ------------------------------------------------------------ input lines
\* One line of the file after line.strip() (chess_parser.py:233).
Blank == [kind |-> "blank", key |-> "", value |-> "", tokens |-> <<>>]
Tag(k, v) == [kind |-> "tag", key |-> k, value |-> v, tokens |-> <<>>]
MoveLine(toks) == [kind |-> "moves", key |-> "", value |-> "", tokens |-> toks]

Absent == "<absent>"
ResultTokens == {"1-0", "0-1", "1/2-1/2", "*"}

\* Move text of n plies: bare SAN tokens, or SAN tokens with move numbers
\* ("1. e4 e5 2. Nf3"), optionally followed by a game-termination token.
Bare(n) == [i \in 1..n |-> "san"]
Numbered(n) == [j \in 1..(n + (n + 1) \div 2) |->
                   IF (j - 1) % 3 = 0 THEN "num" ELSE "san"]
Term(t) == IF t = Absent THEN <<>> ELSE <<t>>

\* A game block: header values (Absent = header missing) and its move text.
Block(w, b, we, be, res, eco, op, toks) ==
    [White |-> w, Black |-> b, WhiteElo |-> we, BlackElo |-> be,
     Result |-> res, ECO |-> eco, Opening |-> op, tokens |-> toks]

TagKeys == <<"White", "Black", "WhiteElo", "BlackElo", "Result", "ECO", "Opening">>

HeaderLines(blk) ==
    LET val(k) == CASE k = "White" -> blk.White [] k = "Black" -> blk.Black
                    [] k = "WhiteElo" -> blk.WhiteElo [] k = "BlackElo" -> blk.BlackElo
                    [] k = "Result" -> blk.Result [] k = "ECO" -> blk.ECO
                    [] OTHER -> blk.Opening
        all == [i \in 1..Len(TagKeys) |-> Tag(TagKeys[i], val(TagKeys[i]))]
    IN  SelectSeq(all, LAMBDA l : l.value # Absent)

\* Lines of one block.  "wire": headers, blank line, move line (the PGN
\* export layout).  "compact": headers directly followed by the move line.
BlockLines(blk, style) ==
    LET hs == HeaderLines(blk)
        ms == IF blk.tokens = <<>> THEN <<>> ELSE <<MoveLine(blk.tokens)>>
    IN  IF style = "wire" /\ hs # <<>> /\ ms # <<>>
        THEN hs \o <<Blank>> \o ms
        ELSE hs \o ms

E2E1 == Block("Alice", "Bob", "1500", "1600", "1-0", "B01", "Scandinavian", Bare(10))
E2E2 == Block("Carol", "Alice", "1800", "1520", "1/2-1/2", "B01", "Center Counter", Bare(6))

BlockPool ==
    { E2E1, E2E2,
      Block("Carol", "Bob", "1500", "-1", "*", Absent, Absent, Numbered(3) \o Term("1/2-1/2")),
      Block("Bob", "Carol", "3501", "1500", "0-1", "C20", "King's Pawn", Bare(2)),
      Block("Alice", "Carol", "0", "?", "0-1", "B01", "Scandinavian", Bare(1)),
      Block(Absent, Absent, "3500", Absent, Absent, Absent, Absent, Bare(500)),
      Block("Bob", "Alice", "1600", "1400", "1-0", "C20", "King's Pawn", Bare(501)) }

RECURSIVE BlockSeqs(_)
BlockSeqs(n) ==
    IF n = 0 THEN {<<>>}
    ELSE LET prev == BlockSeqs(n - 1)
         IN  prev \cup {Append(s, b) : s \in {p \in prev : Len(p) = n - 1}, b \in BlockPool}

\* The file: every block is followed by a blank line; the last one is
\* followed by trailing blank lines (0: the file ends right after the last
\* move line).
StreamOf(blocks, style, trailing) ==
    LET n == Len(blocks)
        part(i) == BlockLines(blocks[i], style)
                     \o (IF i < n THEN <<Blank>> ELSE [j \in 1..trailing |-> Blank])
    IN  Concat([i \in 1..n |-> part(i)])

E2EStream == StreamOf(<<E2E1, E2E2>>, "wire", 1)

Layouts == {<<"wire", 1>>, <<"wire", 0>>, <<"compact", 2>>}

Streams == { StreamOf(bs, l[1], l[2]) : bs \in BlockSeqs(MaxBlocks), l \in Layouts }

\* ------------------------------------------------- chess.pgn.read_game
\* int() of a header value; int("?") raises ValueError.
IntTable == ("1400" :> 1400) @@ ("1500" :> 1500) @@ ("1520" :> 1520) @@
            ("1600" :> 1600) @@ ("1800" :> 1800) @@ ("0" :> 0) @@
            ("3500" :> 3500) @@ ("3501" :> 3501) @@ ("-1" :> -1)
IsIntText(s) == s \in DOMAIN IntTable
int(s) == IntTable[s]

\* The headers of a freshly read game carry the seven-tag roster defaults,
\* so headers.get("White", ...) never falls back to the caller's default.
RosterDefault(k) == CASE k = "White" -> "?" [] k = "Black" -> "?"
                      [] k = "Result" -> "*" [] OTHER -> Absent

UnitTokens(unit) ==
    Concat([i \in 1..Len(unit) |-> unit[i].tokens])

\* mainline_moves(): the SAN tokens; move numbers and termination tokens
\* are not moves.
mainline_moves(unit) == SelectSeq(UnitTokens(unit), LAMBDA t : t = "san")

read_game(unit) ==
    LET tagged(k) == {i \in 1..Len(unit) : unit[i].kind = "tag" /\ unit[i].key = k}
        raw(k) == IF tagged(k) = {} THEN RosterDefault(k)
                  ELSE unit[CHOOSE i \in tagged(k) : \A j \in tagged(k) : j <= i].value
        decisive == SelectSeq(UnitTokens(unit), LAMBDA t : t \in ResultTokens \ {"*"})
        hdr(k) == IF k = "Result" /\ raw(k) = "*" /\ decisive # <<>>
                  THEN decisive[1] ELSE raw(k)
    IN  [headers |-> [k \in {TagKeys[i] : i \in 1..Len(TagKeys)} |-> hdr(k)],
         moves |-> mainline_moves(unit)]

headers_get(h, k, default) == IF h[k] = Absent THEN default ELSE h[k]

\* ------------------------------------------------------ storage back ends
NewPlayer(rating) ==
    [current_rating |-> rating, peak_rating |-> rating, games_played |-> 1]

\* ChessDatabaseManager.get_or_create_player: $set current, $max peak,
\* $inc games_played, or insert.  The store is keyed by username.
get_or_create_player_set_peak(store, username, rating) ==
    IF username \in DOMAIN store
    THEN [store EXCEPT ![username] =
             [current_rating |-> rating,
              peak_rating |-> rating,
              games_played |-> @.games_played + 1]]
    ELSE store @@ (username :> NewPlayer(rating))
get_or_create_player(store, username, rating) ==
    IF username \in DOMAIN store
    THEN [store EXCEPT ![username] =
             [current_rating |-> rating,
              peak_rating |-> Max(@.peak_rating, rating),
              games_played |-> @.games_played + 1]]
    ELSE store @@ (username :> NewPlayer(rating))

\* PortableDatabaseManager.get_or_create_player: SELECT, then UPDATE with
\* new_peak = max(current_peak, rating) if rating else current_peak.
portable_get_or_create_player_no_max(store, username, rating) ==
    IF username \in DOMAIN store
    THEN LET current_peak == store[username].peak_rating
             new_peak == IF rating # 0 THEN rating ELSE current_peak
         IN  [store EXCEPT ![username] =
                 [current_rating |-> rating,
                  peak_rating |-> new_peak,
                  games_played |-> @.games_played + 1]]
    ELSE store @@ (username :> NewPlayer(rating))
portable_get_or_create_player(store, username, rating) ==
    IF username \in DOMAIN store
    THEN LET current_peak == store[username].peak_rating
             new_peak == IF rating # 0 THEN Max(current_peak, rating) ELSE current_peak
         IN  [store EXCEPT ![username] =
                 [current_rating |-> rating,
                  peak_rating |-> new_peak,
                  games_played |-> @.games_played + 1]]
    ELSE store @@ (username :> NewPlayer(rating))

\* insert_many(ordered=False): every document that can be written is
\* written; failed = indexes of the documents the server refused.
bulk_insert_games_ordered(store, batch, failed) ==
    LET stop == IF failed \cap (1..Len(batch)) = {} THEN Len(batch) + 1
                ELSE CHOOSE i \in failed \cap (1..Len(batch)) :
                        \A j \in failed \cap (1..Len(batch)) : i <= j
    IN  store \o SubSeq(batch, 1, stop - 1)
bulk_insert_games(store, batch, failed) ==
    LET kept == SelectSeq([i \in 1..Len(batch) |-> [doc |-> batch[i], keep |-> i \notin failed]],
                          LAMBDA e : e.keep)
    IN  store \o [i \in 1..Len(kept) |-> kept[i].doc]

\* What bulk_insert_games returns: len(result.inserted_ids), or
\* e.details['nInserted'] after a BulkWriteError.
bulk_insert_games_returned(batch, failed) ==
    Len(batch) - Cardinality(failed \cap (1..Len(batch)))

\* One UpdateOne(upsert=True) of update_opening_statistics.
upsert_opening_replace(store, eco_code, data) ==
    IF eco_code \in DOMAIN store THEN [store EXCEPT ![eco_code] = data]
    ELSE store @@ (eco_code :> data)
upsert_opening(store, eco_code, data) ==
    IF eco_code \in DOMAIN store
    THEN [store EXCEPT ![eco_code] =
             [eco_code |-> eco_code,
              opening_name |-> data.opening_name,
              total_games |-> @.total_games + data.total_games,
              white_wins |-> @.white_wins + data.white_wins,
              black_wins |-> @.black_wins + data.black_wins,
              draws |-> @.draws + data.draws,
              total_white_elo |-> @.total_white_elo + data.total_white_elo,
              total_black_elo |-> @.total_black_elo + data.total_black_elo]]
    ELSE store @@ (eco_code :> data)

RECURSIVE upsert_all(_, _, _)
upsert_all(store, openings_data, codes) ==
    IF codes = {} THEN store
    ELSE LET c == CHOOSE x \in codes : TRUE
         IN  upsert_all(upsert_opening(store, c, openings_data[c]), openings_data, codes \ {c})

update_opening_statistics(store, openings_data) ==
    upsert_all(store, openings_data, DOMAIN openings_data)

\* ---------------------------------------------------- OptimizedPGNParser
\* sys.getsizeof of a list grown by append() from [] and of a dict
\* (CPython 3.11, 64 bit).
RECURSIVE ListCap(_)
ListCap(n) ==
    IF n = 0 THEN 0
    ELSE LET prev == ListCap(n - 1)
         IN  IF n <= prev THEN prev ELSE ((n + n \div 8 + 6) \div 4) * 4
ListSizeof(n) == 56 + 8 * ListCap(n)
DictSizeof(n) == IF n = 0 THEN 64 ELSE IF n <= 5 THEN 184 ELSE IF n <= 10 THEN 272 ELSE 464

get_buffer_size_bytes(gb, ob) ==
    ListSizeof(Len(gb)) + DictSizeof(Cardinality(DOMAIN ob))

should_flush_strict(gb, ob, bsize, maxbytes) ==
    Len(gb) > bsize \/ get_buffer_size_bytes(gb, ob) > maxbytes
should_flush(gb, ob, bsize, maxbytes) ==
    Len(gb) >= bsize \/ get_buffer_size_bytes(gb, ob) >= maxbytes

\* the if / elif chain on result: the bucket a result adds to, if any
bucket_else_draws(result) ==
    IF result = "1-0" THEN "white_wins"
    ELSE IF result = "0-1" THEN "black_wins" ELSE "draws"
bucket(result) ==
    IF result = "1-0" THEN "white_wins"
    ELSE IF result = "0-1" THEN "black_wins"
    ELSE IF result = "1/2-1/2" THEN "draws" ELSE "none"

_buffer_opening_stats(ob, eco_code, opening_name, result, white_elo, black_elo) ==
    LET fresh == [eco_code |-> eco_code, opening_name |-> opening_name,
                  total_games |-> 0, white_wins |-> 0, black_wins |-> 0, draws |-> 0,
                  total_white_elo |-> 0, total_black_elo |-> 0]
        opening == IF eco_code \in DOMAIN ob THEN ob[eco_code] ELSE fresh
        updated == [opening EXCEPT
                      !.total_games = @ + 1,
                      !.total_white_elo = @ + white_elo,
                      !.total_black_elo = @ + black_elo,
                      !.white_wins = IF bucket(result) = "white_wins" THEN @ + 1 ELSE @,
                      !.black_wins = IF bucket(result) = "black_wins" THEN @ + 1 ELSE @,
                      !.draws = IF bucket(result) = "draws" THEN @ + 1 ELSE @]
    IN  IF eco_code \in DOMAIN ob THEN [ob EXCEPT ![eco_code] = updated]
        ELSE ob @@ (eco_code :> updated)

\* "Validate basic constraints": the move-count test and the rating test
moves_valid_off_by_one(moves) == ~(Len(moves) >= 500 \/ Len(moves) < 2)
moves_valid(moves) == ~(Len(moves) > 500 \/ Len(moves) < 2)

ratings_valid_white_only(white_elo, black_elo) == ~(white_elo < 0 \/ white_elo > 3500)
ratings_valid(white_elo, black_elo) ==
    ~(white_elo < 0 \/ white_elo > 3500 \/ black_elo < 0 \/ black_elo > 3500)

\* parse_game(pgn_text).  game_data is <<>> for None, <<record>> otherwise;
\* seen lists the get_or_create_player calls that were made.
Rejected(pl, ob, seen) ==
    [game_data |-> <<>>, players |-> pl, openings_buffer |-> ob, seen |-> seen]

parse_game(unit, pl, ob, up) ==
    LET game == read_game(unit)
        headers == game.headers
        white_username == headers_get(headers, "White", "Unknown")
        black_username == headers_get(headers, "Black", "Unknown")
        elo_ok == /\ headers.WhiteElo # Absent => IsIntText(headers.WhiteElo)
                  /\ headers.BlackElo # Absent => IsIntText(headers.BlackElo)
        white_elo == IF headers.WhiteElo = Absent THEN 1500 ELSE int(headers.WhiteElo)
        black_elo == IF headers.BlackElo = Absent THEN 1500 ELSE int(headers.BlackElo)
        pl1 == get_or_create_player(pl, white_username, white_elo)
        pl2 == get_or_create_player(pl1, black_username, black_elo)
        seen == <<[username |-> white_username, rating |-> white_elo],
                  [username |-> black_username, rating |-> black_elo]>>
        moves == game.moves
        game_data == [white_player_id |-> white_username,
                      black_player_id |-> black_username,
                      white_elo |-> white_elo, black_elo |-> black_elo,
                      result |-> headers_get(headers, "Result", "*"),
                      eco_code |-> headers_get(headers, "ECO", "A00"),
                      opening_name |-> headers_get(headers, "Opening", "Unknown"),
                      moves |-> moves]
    IN  IF ~elo_ok \/ ~up THEN Rejected(pl, ob, <<>>)
        ELSE IF ~moves_valid(moves) THEN Rejected(pl2, ob, seen)
        ELSE IF ~ratings_valid(white_elo, black_elo) THEN Rejected(pl2, ob, seen)
        ELSE [game_data |-> <<game_data>>, players |-> pl2,
              openings_buffer |-> _buffer_opening_stats(ob, game_data.eco_code,
                                     game_data.opening_name, game_data.result,
                                     white_elo, black_elo),
              seen |-> seen]

\* Outcome of the two back-end calls of one flush: insert is "ok", "bulk"
\* (BulkWriteError on the documents in failed) or "raise" (any other
\* exception); upsert is "ok" or "raise".  "signal" is a KeyboardInterrupt
\* raised inside the call before the write took place, "signal_after" one
\* raised inside the call after it took place.
Outcome(ins, failed, ups) == [insert |-> ins, failed |-> failed, upsert |-> ups]
NoFault == Outcome("ok", {}, "ok")
IsFault(o) == o # NoFault

Outcomes(gb) ==
    {NoFault}
    \cup {Outcome("bulk", f, "ok") : f \in (SUBSET (1..Len(gb))) \ {{}}}
    \cup {Outcome("raise", {}, "ok"), Outcome("ok", {}, "raise")}
    \cup {Outcome("signal", {}, "ok"), Outcome("signal_after", {}, "ok")}
    \cup {Outcome("ok", {}, "signal"), Outcome("ok", {}, "signal_after")}

Signals == {"signal", "signal_after"}
Signalled(o) == o.insert \in Signals \/ o.upsert \in Signals

\* finally: self.games_buffer = []; self.openings_buffer = {}
cleared_unless_raised(buffer, empty, raised) == IF raised THEN buffer ELSE empty
cleared(buffer, empty, raised) == empty

\* flush_buffers(): the new buffers and stores, plus what was handed to the
\* two back-end operations (handed: batches given to bulk_insert_games,
\* upserted: mappings given to update_opening_statistics, returned: what
\* bulk_insert_games returned, when it returned).
flush_buffers(gb, ob, gstore, ostore, o) ==
    IF gb = <<>> /\ DOMAIN ob = {}
    THEN [games_buffer |-> gb, openings_buffer |-> ob, games |-> gstore,
          openings |-> ostore, handed |-> <<>>, upserted |-> <<>>, returned |-> <<>>]
    ELSE LET ins_called == gb # <<>>
             ins_raised == ins_called /\ o.insert \in {"raise"} \cup Signals
             ins_done == ins_called /\ o.insert \in {"ok", "bulk", "signal_after"}
             ups_called == ~ins_raised /\ DOMAIN ob # {}
             ups_raised == ups_called /\ o.upsert \in {"raise"} \cup Signals
             ups_done == ups_called /\ o.upsert \in {"ok", "signal_after"}
         IN  [games_buffer |-> cleared(gb, <<>>, ins_raised \/ ups_raised),
              openings_buffer |-> cleared(ob, EmptyMap, ins_raised \/ ups_raised),
              games |-> IF ins_done
                        THEN bulk_insert_games(gstore, gb, o.failed) ELSE gstore,
              openings |-> IF ups_done
                           THEN update_opening_statistics(ostore, ob) ELSE ostore,
              handed |-> IF ins_called THEN <<gb>> ELSE <<>>,
              upserted |-> IF ups_called THEN <<ob>> ELSE <<>>,
              returned |-> IF ins_called /\ ~ins_raised
                           THEN <<[failed |-> o.failed,
                                   returned |-> bulk_insert_games_returned(gb, o.failed)]>>
                           ELSE <<>>]

\* ------------------------------------------------------------------ state
VARIABLES
    backend,           \* "mongo" (ChessDatabaseManager) or "sqlite" (Portable)
    db_up,             \* the MongoDB server can be reached
    file_ok,           \* open(filepath) succeeds
    metadata0,         \* the metadata collection before the run
    batch_size, max_memory_bytes, max_games,     \* max_games = 0: no limit
    stream, pos,       \* the lines of the file and the next line to read
    current_game, games_processed, parse_errors,
    games_buffer, openings_buffer,
    players, games, openings, metadata,          \* the persisted collections
    pc,                \* "loop", "broke", "checkpoint", "done", "interrupted", "failed", "calls"
    units,             \* history: the texts handed to parse_game
    accepted,          \* history: the records parse_game returned
    handed,            \* history: the batches handed to bulk_insert_games
    upserted,          \* history: the mappings handed to update_opening_statistics
    observed,          \* history: the get_or_create_player calls
    faults,            \* history: number of flushes that met a fault or a signal
    insert_log,        \* history: what each bulk_insert_games call returned
    signal_at,         \* history: where the stop signal arrived
    workers,           \* concurrent callers of one back end: position and locals
    docs,              \* the players collection as a list of documents
    unique_index,      \* create_indexes has been run on the collections
    twin,              \* a PortableDatabaseManager given the same calls
    arg, ret           \* argument and result of a function call

vars == <<backend, db_up, batch_size, max_memory_bytes, max_games, stream, pos,
          current_game, games_processed, parse_errors, games_buffer,
          openings_buffer, players, games, openings, metadata, pc, units,
          accepted, handed, upserted, observed, faults, file_ok, metadata0,
          insert_log, signal_at, workers, docs, unique_index, twin, arg, ret>>

aux == <<workers, docs, unique_index, twin, arg, ret>>

config == <<backend, db_up, file_ok, metadata0, batch_size, max_memory_bytes, max_games,
            stream>>

\* OptimizedPGNParser(db, batch_size, max_memory_mb) and ingest_pgn_file(max_games)
\* up: the server is reachable; ok: the file can be opened; earlier: the
\* checkpoints earlier runs left in the metadata collection
Config(b, mb, g, up, ok, earlier) ==
    [batch_size |-> b, max_memory_mb |-> mb, max_games |-> g, db_up |-> up,
     file_ok |-> ok, metadata0 |-> earlier]
Checkpoint(n, e) == [games_imported |-> n, parse_errors |-> e]
Configs == { Config(10, 1, 0, TRUE, TRUE, <<>>), Config(1, 1, 0, TRUE, TRUE, <<>>),
             Config(2, 1, 0, TRUE, TRUE, <<Checkpoint(1, 0)>>),
             Config(10, 0, 0, TRUE, TRUE, <<>>), Config(10, 1, 1, TRUE, TRUE, <<>>),
             Config(10, 1, 0, FALSE, TRUE, <<>>), Config(10, 1, 0, TRUE, FALSE, <<>>) }

InitStores ==
    /\ players = EmptyMap /\ games = <<>> /\ openings = EmptyMap /\ metadata = metadata0
    /\ games_buffer = <<>> /\ openings_buffer = EmptyMap
    /\ current_game = <<>> /\ games_processed = 0 /\ parse_errors = 0
    /\ units = <<>> /\ accepted = <<>> /\ handed = <<>> /\ upserted = <<>>
    /\ observed = <<>> /\ faults = 0 /\ insert_log = <<>> /\ signal_at = "none"

\* nothing but the run itself is going on
InitAux ==
    /\ workers = <<>> /\ docs = <<>> /\ unique_index = FALSE
    /\ twin = <<>> /\ arg = <<>> /\ ret = <<>>

Init ==
    /\ backend = "mongo"
    /\ \E c \in Configs :
          /\ db_up = c.db_up
          /\ file_ok = c.file_ok
          /\ metadata0 = c.metadata0
          /\ batch_size = c.batch_size
          /\ max_memory_bytes = c.max_memory_mb * 1024 * 1024
          /\ max_games = c.max_games
    /\ stream \in Streams
    /\ pos = 1
    /\ pc = "start"
    /\ InitStores /\ InitAux

FlushOutcomes(gb) ==
    IF gb = <<>> \/ faults >= MaxFaults THEN {NoFault} ELSE Outcomes(gb)

\* the part of a step that is a call of flush_buffers with outcome o
Flush(gb, ob, o) ==
    LET f == flush_buffers(gb, ob, games, openings, o)
    IN  /\ games_buffer' = f.games_buffer
        /\ openings_buffer' = f.openings_buffer
        /\ games' = f.games
        /\ openings' = f.openings
        /\ handed' = handed \o f.handed
        /\ upserted' = upserted \o f.upserted
        /\ faults' = IF IsFault(o) THEN faults + 1 ELSE faults
        /\ insert_log' = insert_log \o f.returned
        /\ signal_at' = IF o.insert \in Signals THEN "insert"
                         ELSE IF o.upsert \in Signals THEN "upsert" ELSE signal_at

NoFlush(gb, ob) ==
    /\ games_buffer' = gb
    /\ openings_buffer' = ob
    /\ UNCHANGED <<games, openings, handed, upserted, faults, insert_log, signal_at>>

\* with open(filepath, 'r', ...) as f: a failure is logged and re-raised
on_open_error_continue == "checkpoint"
on_open_error == "failed"

Open ==
    /\ pc = "start"
    /\ pc' = IF file_ok THEN "loop" ELSE on_open_error
    /\ UNCHANGED <<config, aux, pos, current_game, games_processed, parse_errors, games_buffer,
                   openings_buffer, players, games, openings, metadata, units, accepted,
                   handed, upserted, observed, faults, insert_log, signal_at>>

\* for line in f, non-blank line: current_game.append(line)
AppendLine ==
    /\ pc = "loop" /\ pos <= Len(stream)
    /\ stream[pos].kind # "blank"
    /\ current_game' = Append(current_game, stream[pos])
    /\ pos' = pos + 1
    /\ UNCHANGED <<config, aux, games_processed, parse_errors, games_buffer, openings_buffer,
                   players, games, openings, metadata, pc, units, accepted, handed,
                   upserted, observed, faults, insert_log, signal_at>>

\* blank line while current_game is empty
SkipBlank ==
    /\ pc = "loop" /\ pos <= Len(stream)
    /\ stream[pos].kind = "blank"
    /\ current_game = <<>>
    /\ pos' = pos + 1
    /\ UNCHANGED <<config, aux, current_game, games_processed, parse_errors, games_buffer,
                   openings_buffer, players, games, openings, metadata, pc, units,
                   accepted, handed, upserted, observed, faults, insert_log, signal_at>>

\* Where ingest_pgn_file goes on after a flush_buffers call: the except
\* Exception clause of flush_buffers swallows a failed back-end write, only
\* a KeyboardInterrupt leaves flush_buffers and ends the loop.
after_flush_fault_aborts(o, after) ==
    IF Signalled(o) THEN "interrupted" ELSE IF IsFault(o) THEN "failed" ELSE after
after_flush(o, after) == IF Signalled(o) THEN "interrupted" ELSE after

\* self.parse_errors += 1 after parse_game returned None
parse_errors_unchanged(n) == n
count_parse_error(n) == n + 1

\* if max_games and games_processed >= max_games: break
check_limit_exceeded(limit_, processed) ==
    IF limit_ # 0 /\ processed > limit_ THEN "broke" ELSE "loop"
check_limit(limit_, processed) ==
    IF limit_ # 0 /\ processed >= limit_ THEN "broke" ELSE "loop"

\* blank line ending a unit: parse_game, buffer, auto-flush, max_games
ParseBlock ==
    /\ pc = "loop" /\ pos <= Len(stream)
    /\ stream[pos].kind = "blank"
    /\ current_game # <<>>
    /\ LET r == parse_game(current_game, players, openings_buffer, db_up)
       IN  /\ units' = Append(units, current_game)
           /\ players' = r.players
           /\ observed' = observed \o r.seen
           /\ current_game' = <<>>
           /\ pos' = pos + 1
           /\ IF r.game_data # <<>>
              THEN LET gb == Append(games_buffer, r.game_data[1])
                   IN  /\ accepted' = Append(accepted, r.game_data[1])
                       /\ games_processed' = games_processed + 1
                       /\ parse_errors' = parse_errors
                       /\ LET after == check_limit(max_games, games_processed + 1)
                          IN  IF should_flush(gb, r.openings_buffer, batch_size,
                                              max_memory_bytes)
                              THEN \E o \in FlushOutcomes(gb) :
                                      /\ Flush(gb, r.openings_buffer, o)
                                      /\ pc' = after_flush(o, after)
                              ELSE /\ NoFlush(gb, r.openings_buffer)
                                   /\ pc' = after
              ELSE /\ parse_errors' = count_parse_error(parse_errors)
                   /\ NoFlush(games_buffer, r.openings_buffer)
                   /\ UNCHANGED <<accepted, games_processed, pc>>
    /\ UNCHANGED <<config, aux, metadata>>

\* end of the for loop (end of file or break): the final flush
FinalFlush ==
    /\ \/ pc = "loop" /\ pos > Len(stream)
       \/ pc = "broke"
    /\ \E o \in FlushOutcomes(games_buffer) :
          /\ Flush(games_buffer, openings_buffer, o)
          /\ pc' = after_flush(o, "checkpoint")
    /\ UNCHANGED <<config, aux, pos, current_game, games_processed, parse_errors, players,
                   metadata, units, accepted, observed>>

\* insert_one on a collection: one more document, the others untouched
insert_one_replacing(coll, doc) == <<doc>>
insert_one(coll, doc) == Append(coll, doc)

\* self.db.metadata.insert_one({...}); an unreachable server makes it raise,
\* which ingest_pgn_file logs and re-raises
SaveMetadata ==
    /\ pc = "checkpoint"
    /\ IF db_up
       THEN /\ metadata' = insert_one(metadata, Checkpoint(games_processed, parse_errors))
            /\ pc' = "done"
       ELSE /\ pc' = "failed"
            /\ UNCHANGED metadata
    /\ UNCHANGED <<config, aux, pos, current_game, games_processed, parse_errors, games_buffer,
                   openings_buffer, players, games, openings, units, accepted, handed,
                   upserted, observed, faults, insert_log, signal_at>>

\* except KeyboardInterrupt: flush_buffers()
on_interrupt_log_only(gb, ob, gstore, ostore, o) ==
    [games_buffer |-> gb, openings_buffer |-> ob, games |-> gstore,
     openings |-> ostore, handed |-> <<>>, upserted |-> <<>>, returned |-> <<>>]
on_interrupt(gb, ob, gstore, ostore, o) == flush_buffers(gb, ob, gstore, ostore, o)

KeyboardInterrupt ==
    /\ pc \in {"loop", "broke", "checkpoint"}
    /\ signal_at = "none"
    /\ \E o \in FlushOutcomes(games_buffer) :
          LET f == on_interrupt(games_buffer, openings_buffer, games, openings, o)
          IN  /\ games_buffer' = f.games_buffer
              /\ openings_buffer' = f.openings_buffer
              /\ games' = f.games
              /\ openings' = f.openings
              /\ handed' = handed \o f.handed
              /\ upserted' = upserted \o f.upserted
              /\ faults' = IF IsFault(o) THEN faults + 1 ELSE faults
              /\ insert_log' = insert_log \o f.returned
    /\ signal_at' = "loop"
    /\ pc' = "interrupted"
    /\ UNCHANGED <<config, aux, pos, current_game, games_processed, parse_errors, players,
                   metadata, units, accepted, observed>>

Next == Open \/ AppendLine \/ SkipBlank \/ ParseBlock \/ FinalFlush \/ SaveMetadata \/ KeyboardInterrupt

Spec == Init /\ [][Next]_vars

TypeOK ==
    /\ pc \in {"start", "loop", "broke", "checkpoint", "done", "interrupted", "failed"}
    /\ signal_at \in {"none", "loop", "insert", "upsert"}
    /\ Len(insert_log) <= Len(handed)
    /\ pos \in 1..(Len(stream) + 1)
    /\ games_processed \in Nat /\ parse_errors \in Nat
    /\ Len(games_buffer) <= games_processed

\* ------------------------------------- direct get_or_create_player calls
\* save_games / insert_game of either back end resolve players directly.
Users == {"Alice", "Bob"}
Ratings == {0, 1500, 1520, 3500}

InitPlayers ==
    /\ backend \in {"mongo", "sqlite"}
    /\ db_up = TRUE /\ batch_size = 10 /\ max_memory_bytes = 1024 * 1024 /\ max_games = 0
    /\ file_ok = TRUE /\ metadata0 = <<>>
    /\ stream = <<>> /\ pos = 1
    /\ pc = "calls"
    /\ InitStores /\ InitAux

ObserveFrame ==
    UNCHANGED <<config, aux, pos, current_game, games_processed, parse_errors, games_buffer,
                openings_buffer, games, openings, metadata, pc, units, accepted, handed,
                upserted, faults, insert_log, signal_at>>

ObserveMongo(u, r) ==
    /\ pc = "calls" /\ backend = "mongo" /\ Len(observed) < MaxObs
    /\ players' = get_or_create_player(players, u, r)
    /\ observed' = Append(observed, [username |-> u, rating |-> r])
    /\ ObserveFrame

ObservePortable(u, r) ==
    /\ pc = "calls" /\ backend = "sqlite" /\ Len(observed) < MaxObs
    /\ players' = portable_get_or_create_player(players, u, r)
    /\ observed' = Append(observed, [username |-> u, rating |-> r])
    /\ ObserveFrame

NextPlayers == \E u \in Users, r \in Ratings : ObserveMongo(u, r) \/ ObservePortable(u, r)

SpecPlayers == InitPlayers /\ [][NextPlayers]_vars

\* ------------------------- the ingestor's calls on both back ends at once
\* The three operations OptimizedPGNParser issues, given to a
\* ChessDatabaseManager (players, games, openings) and to a
\* PortableDatabaseManager (twin) side by side.

\* the methods PortableDatabaseManager defines
PortableMethods ==
    {"get_or_create_player", "save_games", "load_games", "get_stats", "create_study",
     "get_studies", "add_games_to_study", "get_games_in_study", "delete_study", "close",
     "insert_game", "update_game"}

\* parse_game passes (username, elo, game_date, title); the portable
\* method is get_or_create_player(self, username, rating, date=None)
IngestorArgs == <<"username", "rating", "date", "title">>
PortableParams == <<"username", "rating", "date">>

\* a call of method with nargs positional arguments on the portable back end
portable_call_raises(method, nargs) ==
    IF method \notin PortableMethods THEN "AttributeError"
    ELSE IF method = "get_or_create_player" /\ nargs > Len(PortableParams) THEN "TypeError"
    ELSE "none"

TwinStores == [players |-> EmptyMap, games |-> <<>>, openings |-> EmptyMap]

TwinGame(w, b, code, name, res) ==
    [white_player_id |-> w, black_player_id |-> b, white_elo |-> 1500, black_elo |-> 1500,
     result |-> res, eco_code |-> code, opening_name |-> name, moves |-> <<"san", "san">>]
TwinBatches ==
    { <<TwinGame("Alice", "Bob", "B01", "Scandinavian", "1-0")>>,
      <<TwinGame("Alice", "Bob", "B01", "Scandinavian", "1-0"),
        TwinGame("Bob", "Alice", "C20", "King's Pawn", "*")>> }

RECURSIVE AccumulatorOf(_)
AccumulatorOf(batch) ==
    IF batch = <<>> THEN EmptyMap
    ELSE LET g == Last(batch)
         IN  _buffer_opening_stats(AccumulatorOf(SubSeq(batch, 1, Len(batch) - 1)),
                                   g.eco_code, g.opening_name, g.result,
                                   g.white_elo, g.black_elo)

InitTwin ==
    /\ backend = "both"
    /\ db_up = TRUE /\ batch_size = 10 /\ max_memory_bytes = 1024 * 1024 /\ max_games = 0
    /\ file_ok = TRUE /\ metadata0 = <<>>
    /\ stream = <<>> /\ pos = 1
    /\ pc = "twin"
    /\ InitStores
    /\ workers = <<>> /\ docs = <<>> /\ unique_index = FALSE /\ arg = <<>>
    /\ twin = TwinStores
    /\ ret = <<>>

TwinFrame ==
    UNCHANGED <<config, workers, docs, unique_index, pos, current_game,
                games_processed, parse_errors, games_buffer, openings_buffer, metadata, pc,
                units, accepted, handed, upserted, faults, insert_log, signal_at>>

Answers(m, p) == [mongo |-> m, portable |-> p]
Call(method, args) == [op |-> method, args |-> args]

\* self.db.get_or_create_player(username, elo, game_date, title)
TwinResolve(u, r) ==
    /\ pc = "twin" /\ Len(observed) < MaxObs
    /\ observed' = Append(observed, [username |-> u, rating |-> r])
    /\ arg' = Call("get_or_create_player", <<u, r>>)
    /\ players' = get_or_create_player(players, u, r)
    /\ LET e == portable_call_raises("get_or_create_player", Len(IngestorArgs))
       IN  /\ twin' = IF e = "none"
                      THEN [twin EXCEPT !.players = portable_get_or_create_player(@, u, r)]
                      ELSE twin
           /\ ret' = Answers("none", e)
    /\ UNCHANGED <<games, openings>>
    /\ TwinFrame

\* self.db.bulk_insert_games(self.games_buffer)
TwinBulkInsert(batch) ==
    /\ pc = "twin" /\ Len(observed) < MaxObs
    /\ observed' = Append(observed, [username |-> "", rating |-> 0])
    /\ arg' = Call("bulk_insert_games", batch)
    /\ games' = bulk_insert_games(games, batch, {})
    /\ LET e == portable_call_raises("bulk_insert_games", 1)
       IN  /\ twin' = twin
           /\ ret' = Answers("none", e)
    /\ UNCHANGED <<players, openings>>
    /\ TwinFrame

\* self.db.update_opening_statistics(self.openings_buffer)
TwinUpsert(batch) ==
    /\ pc = "twin" /\ Len(observed) < MaxObs
    /\ observed' = Append(observed, [username |-> "", rating |-> 0])
    /\ arg' = Call("update_opening_statistics", AccumulatorOf(batch))
    /\ openings' = update_opening_statistics(openings, AccumulatorOf(batch))
    /\ LET e == portable_call_raises("update_opening_statistics", 1)
       IN  /\ twin' = twin
           /\ ret' = Answers("none", e)
    /\ UNCHANGED <<players, games>>
    /\ TwinFrame

NextTwin ==
    \/ \E u \in Users, r \in Ratings : TwinResolve(u, r)
    \/ \E b \in TwinBatches : TwinBulkInsert(b)
    \/ \E b \in TwinBatches : TwinUpsert(b)

SpecTwin == InitTwin /\ [][NextTwin]_vars

\* ------------------------------ two workers calling get_or_create_player
\* Each call is a read of the collection (find_one / SELECT) followed by a
\* write (insert_one or update_one / INSERT or UPDATE); the steps of the
\* two workers interleave.  docs is the players collection, a document's
\* _id / id is its position.
Workers == {1, 2}

PlayerDoc(u, r) ==
    [username |-> u, current_rating |-> r, peak_rating |-> r, games_played |-> 1]

\* find_one({"username": username}): position of a matching document, 0 for None
find_one(coll, u) ==
    IF \E i \in 1..Len(coll) : coll[i].username = u
    THEN CHOOSE i \in 1..Len(coll) :
            /\ coll[i].username = u
            /\ \A j \in 1..Len(coll) : coll[j].username = u => i <= j
    ELSE 0

\* update_one({"_id": player_id}, {$set, $max, $inc}): evaluated on the
\* document as it is at the time of the write
mongo_update_one(coll, id, r) ==
    [coll EXCEPT ![id] = [@ EXCEPT !.current_rating = r,
                                   !.peak_rating = Max(@, r),
                                   !.games_played = @ + 1]]

\* UPDATE players SET current_rating = ?, peak_rating = ?, games_played =
\* games_played + 1 WHERE id = ?  with new_peak computed from the row read
portable_update(coll, id, r, current_peak) ==
    [coll EXCEPT ![id] = [@ EXCEPT !.current_rating = r,
                                   !.peak_rating = IF r # 0 THEN Max(current_peak, r)
                                                   ELSE current_peak,
                                   !.games_played = @ + 1]]

\* insert_one / INSERT: refused when a unique index on username exists and
\* the username is already there
insert_refused(coll, uniq, u) == uniq /\ find_one(coll, u) # 0

InitWorkers ==
    /\ backend \in {"mongo", "sqlite"}
    /\ db_up = TRUE /\ batch_size = 10 /\ max_memory_bytes = 1024 * 1024 /\ max_games = 0
    /\ file_ok = TRUE /\ metadata0 = <<>>
    /\ stream = <<>> /\ pos = 1
    /\ pc = "workers"
    /\ InitStores
    /\ unique_index \in (IF backend = "sqlite" THEN {TRUE} ELSE BOOLEAN)
    /\ docs = <<>>
    /\ workers \in [Workers -> {[pc |-> "find", username |-> u, rating |-> r,
                                  found |-> 0, current_peak |-> 0] :
                                     u \in Users, r \in Ratings}]
    /\ twin = <<>> /\ arg = <<>> /\ ret = <<>>

WorkersFrame ==
    UNCHANGED <<config, unique_index, twin, arg, ret, pos, current_game, games_processed,
                parse_errors, games_buffer, openings_buffer, players, games, openings,
                metadata, pc, units, accepted, handed, upserted, observed, faults,
                insert_log, signal_at>>

\* player = self.players.find_one(...) / cursor.execute("SELECT ..."); fetchone()
WorkerFind(w) ==
    /\ pc = "workers" /\ workers[w].pc = "find"
    /\ LET id == find_one(docs, workers[w].username)
       IN  workers' = [workers EXCEPT ![w] =
                          [@ EXCEPT !.pc = "write", !.found = id,
                                    !.current_peak = IF id = 0 THEN 0
                                                     ELSE docs[id].peak_rating]]
    /\ UNCHANGED docs
    /\ WorkersFrame

\* if player: update_one ... else: insert_one
WorkerWrite(w) ==
    /\ pc = "workers" /\ workers[w].pc = "write"
    /\ LET me == workers[w]
       IN  IF me.found # 0
           THEN /\ docs' = IF backend = "mongo"
                            THEN mongo_update_one(docs, me.found, me.rating)
                            ELSE portable_update(docs, me.found, me.rating, me.current_peak)
                /\ workers' = [workers EXCEPT ![w].pc = "done"]
           ELSE IF insert_refused(docs, unique_index, me.username)
                THEN /\ workers' = [workers EXCEPT ![w].pc = "raised"]
                     /\ UNCHANGED docs
                ELSE /\ docs' = Append(docs, PlayerDoc(me.username, me.rating))
                     /\ workers' = [workers EXCEPT ![w].pc = "done"]
    /\ WorkersFrame

NextWorkers == \E w \in Workers : WorkerFind(w) \/ WorkerWrite(w)

SpecWorkers == InitWorkers /\ [][NextWorkers]_vars

\* --------------------------- two workers calling update_opening_statistics
\* Each worker flushes its own accumulator; bulk_write(ordered=False) sends
\* one UpdateOne per opening code, which the server applies to the code's
\* document in one step, in any order and interleaved with the other
\* worker's.  arg holds the openings collection as it was before.
UpsertBatches ==
    TwinBatches \cup
    { <<TwinGame("Bob", "Alice", "C20", "King's Pawn", "0-1"),
        TwinGame("Alice", "Bob", "B01", "Center Counter", "1/2-1/2")>> }

worker_upsert_insert_only(store, delta, code) ==
    IF code \in DOMAIN store THEN store ELSE upsert_opening(store, code, delta[code])
worker_upsert(store, delta, code) == upsert_opening(store, code, delta[code])

InitUpserts ==
    /\ backend = "mongo"
    /\ db_up = TRUE /\ batch_size = 10 /\ max_memory_bytes = 1024 * 1024 /\ max_games = 0
    /\ file_ok = TRUE /\ metadata0 = <<>>
    /\ stream = <<>> /\ pos = 1
    /\ pc = "upserts"
    /\ players = EmptyMap /\ games = <<>> /\ metadata = metadata0
    /\ games_buffer = <<>> /\ openings_buffer = EmptyMap
    /\ current_game = <<>> /\ games_processed = 0 /\ parse_errors = 0
    /\ units = <<>> /\ accepted = <<>> /\ handed = <<>> /\ upserted = <<>>
    /\ observed = <<>> /\ faults = 0 /\ insert_log = <<>> /\ signal_at = "none"
    /\ openings \in {EmptyMap} \cup {AccumulatorOf(b) : b \in UpsertBatches}
    /\ arg = openings
    /\ workers \in [Workers -> {[pc |-> "write", delta |-> AccumulatorOf(b),
                                  todo |-> DOMAIN AccumulatorOf(b)] : b \in UpsertBatches}]
    /\ docs = <<>> /\ unique_index = TRUE /\ twin = <<>> /\ ret = <<>>

\* the server applies one UpdateOne of worker w
WorkerUpsert(w, code) ==
    /\ pc = "upserts" /\ workers[w].pc = "write"
    /\ code \in workers[w].todo
    /\ openings' = worker_upsert(openings, workers[w].delta, code)
    /\ workers' = [workers EXCEPT ![w] =
                      [@ EXCEPT !.todo = @ \ {code},
                                !.pc = IF workers[w].todo = {code} THEN "done" ELSE "write"]]
    /\ UNCHANGED <<config, docs, unique_index, twin, arg, ret, pos, current_game,
                   games_processed, parse_errors, games_buffer, openings_buffer, players,
                   games, metadata, pc, units, accepted, handed, upserted, observed,
                   faults, insert_log, signal_at>>

NextUpserts == \E w \in Workers : \E code \in workers[w].todo : WorkerUpsert(w, code)

SpecUpserts == InitUpserts /\ [][NextUpserts]_vars

\* ------------------------------------------ ChessDatabaseManager.load_games
\* The player's _id is modelled by the username it belongs to.  The file's
\* blocks carry no Date header here, so every date is None and the sort
\* by date keeps the order of the collection.
LoadLimit == 100

\* query: white_player_id or black_player_id is the player's _id
games_find(coll, player_id) ==
    SelectSeq(coll, LAMBDA g : g.white_player_id = player_id \/ g.black_player_id = player_id)

limit(rows, n) == IF Len(rows) <= n THEN rows ELSE SubSeq(rows, 1, n)

\* one entry of processed_games
load_row_eco_key(g, player_id) ==
    LET white == g.white_player_id = player_id
    IN  [user_color |-> IF white THEN "white" ELSE "black",
         user_rating |-> IF white THEN g.white_elo ELSE g.black_elo,
         opponent_rating |-> IF white THEN g.black_elo ELSE g.white_elo,
         result |-> g.result, opening_name |-> g.opening_name, eco |-> Absent,
         moves |-> g.moves, ply_count |-> Len(g.moves)]
load_row(g, player_id) ==
    LET white == g.white_player_id = player_id
    IN  [user_color |-> IF white THEN "white" ELSE "black",
         user_rating |-> IF white THEN g.white_elo ELSE g.black_elo,
         opponent_rating |-> IF white THEN g.black_elo ELSE g.white_elo,
         result |-> g.result, opening_name |-> g.opening_name, eco |-> g.eco_code,
         moves |-> g.moves, ply_count |-> Len(g.moves)]

load_games(pstore, gstore, username, n) ==
    IF username \notin DOMAIN pstore THEN <<>>
    ELSE LET found == limit(games_find(gstore, username), n)
         IN  [i \in 1..Len(found) |-> load_row(found[i], username)]

\* ---------------------------------------------------------------- claims
\* What a text unit says about itself, read off its lines.
HasTags(unit) == \E i \in 1..Len(unit) : unit[i].kind = "tag"
HasMoves(unit) == \E i \in 1..Len(unit) : unit[i].kind = "moves"
MoveTokenCount(unit) ==
    LET toks == UnitTokens(unit)
    IN  Cardinality({i \in 1..Len(toks) : toks[i] = "san"})
RatingValues(unit, key) ==
    {unit[i].value : i \in {j \in 1..Len(unit) : unit[j].kind = "tag" /\ unit[j].key = key}}
RatingInRange(unit, key) ==
    \A v \in RatingValues(unit, key) : IsIntText(v) /\ int(v) >= 0 /\ int(v) <= 3500
RatingOutOfRange(unit, key) ==
    \E v \in RatingValues(unit, key) : IsIntText(v) /\ (int(v) < 0 \/ int(v) > 3500)
RatingsReadable(unit) ==
    \A v \in RatingValues(unit, "WhiteElo") \cup RatingValues(unit, "BlackElo") : IsIntText(v)
InBounds(unit) ==
    /\ MoveTokenCount(unit) >= 2 /\ MoveTokenCount(unit) <= 500
    /\ RatingInRange(unit, "WhiteElo") /\ RatingInRange(unit, "BlackElo")
OutOfBounds(unit) ==
    /\ RatingsReadable(unit)
    /\ \/ MoveTokenCount(unit) < 2 \/ MoveTokenCount(unit) > 500
       \/ RatingOutOfRange(unit, "WhiteElo") \/ RatingOutOfRange(unit, "BlackElo")
RecordInBounds(g) ==
    /\ Len(g.moves) >= 2 /\ Len(g.moves) <= 500
    /\ g.white_elo >= 0 /\ g.white_elo <= 3500 /\ g.black_elo >= 0 /\ g.black_elo <= 3500

\* this step is one call of parse_game on current_game
ParsedNow == Len(units') = Len(units) + 1
AcceptedNow == Len(accepted') = Len(accepted) + 1

\* C1: a block with 2..500 move tokens and both ratings (1500 when the
\* header is absent) in 0..3500 is accepted when the back end is reachable,
\* and the record's move list is as long as the block's move token count.
C1_InBoundsAccepted ==
    [][(ParsedNow /\ db_up /\ InBounds(current_game))
          => /\ AcceptedNow
             /\ parse_errors' = parse_errors
             /\ Len(Last(accepted').moves) = MoveTokenCount(current_game)]_vars

C1_Witness ==
    /\ units # <<>> /\ accepted # <<>> /\ current_game = <<>>
    /\ HasTags(Last(units)) /\ RatingValues(Last(units), "WhiteElo") # {}
    /\ InBounds(Last(units))
    /\ MoveTokenCount(Last(units)) = 500
    /\ Len(Last(accepted).moves) = 500

\* C2: a block out of the move-count or rating bounds is rejected and
\* leaves the pending record buffer and the opening accumulator as they
\* were; no record out of bounds is ever buffered or handed to the back end.
C2_OutOfBoundsRejected ==
    /\ [][(ParsedNow /\ OutOfBounds(current_game))
             => /\ accepted' = accepted
                /\ parse_errors' = parse_errors + 1
                /\ games_buffer' = games_buffer
                /\ openings_buffer' = openings_buffer
                /\ handed' = handed]_vars
    /\ [](/\ \A i \in 1..Len(games_buffer) : RecordInBounds(games_buffer[i])
          /\ \A i \in 1..Len(handed) : \A j \in 1..Len(handed[i]) : RecordInBounds(handed[i][j]))

C2_Witness ==
    /\ units # <<>> /\ current_game = <<>> /\ pc = "loop"
    /\ HasMoves(Last(units)) /\ OutOfBounds(Last(units))
    /\ RatingOutOfRange(Last(units), "BlackElo")
    /\ parse_errors >= 1
    /\ games_buffer # <<>> /\ DOMAIN openings_buffer # {}

\* C3: a block rejected for its move count or its ratings resolves no
\* player: the players store is the same before and after parse_game.
C3_RejectedResolvesNoPlayer ==
    [][(ParsedNow /\ OutOfBounds(current_game)) => players' = players]_vars

\* C4: a flush inside the loop happens exactly after an accepted record
\* that brings the buffer to batch_size records or the estimated size to
\* max_memory_bytes; every other flush is the one that ends the run.
ThresholdReached ==
    LET n == Len(games_buffer) + 1
        codes == DOMAIN openings_buffer \cup {Last(accepted').eco_code}
    IN  \/ n >= batch_size
        \/ ListSizeof(n) + DictSizeof(Cardinality(codes)) >= max_memory_bytes

C4_FlushExactlyAtThreshold ==
    /\ [][(ParsedNow /\ AcceptedNow /\ ThresholdReached)
             => Len(handed') = Len(handed) + 1 /\ games_buffer' = <<>>]_vars
    /\ [][(ParsedNow /\ ~(AcceptedNow /\ ThresholdReached))
             => handed' = handed /\ upserted' = upserted]_vars
    /\ [][(handed' # handed \/ upserted' # upserted)
             => ParsedNow \/ pc' \in {"checkpoint", "interrupted"}]_vars

C4_Witness ==
    /\ pc = "loop" /\ batch_size = 2 /\ max_memory_bytes > 0
    /\ Len(accepted) = 2
    /\ Len(handed) = 1 /\ Len(handed[1]) = 2
    /\ games_buffer = <<>>

\* C5: when flush_buffers returns, the pending record buffer and the
\* opening accumulator are empty, whatever the back-end calls did.
FlushedNow ==
    \/ ParsedNow /\ AcceptedNow /\ ThresholdReached
    \/ pc' \in {"checkpoint", "interrupted"} /\ pc' # pc

C5_EmptyAfterFlush ==
    [][FlushedNow => games_buffer' = <<>> /\ DOMAIN openings_buffer' = {}]_vars

C5_Witness ==
    /\ faults >= 1 /\ handed # <<>> /\ games = <<>> /\ upserted = <<>>
    /\ games_buffer = <<>> /\ DOMAIN openings_buffer = {}

\* C6: the persisted totals of an opening code are the sums over all
\* flushed records of that code, however the records were split into
\* flushes (no back-end fault).
Contribution(g, what) ==
    CASE what = "total_games" -> 1
      [] what = "white_wins" -> IF g.result = "1-0" THEN 1 ELSE 0
      [] what = "black_wins" -> IF g.result = "0-1" THEN 1 ELSE 0
      [] what = "draws" -> IF g.result = "1/2-1/2" THEN 1 ELSE 0
      [] what = "total_white_elo" -> g.white_elo
      [] OTHER -> g.black_elo

RECURSIVE SumOver(_, _, _)
SumOver(recs, code, what) ==
    IF recs = <<>> THEN 0
    ELSE (IF Head(recs).eco_code = code THEN Contribution(Head(recs), what) ELSE 0)
         + SumOver(Tail(recs), code, what)

TotalsMatch(store, recs) ==
    /\ DOMAIN store = {recs[i].eco_code : i \in 1..Len(recs)}
    /\ \A c \in DOMAIN store :
          /\ store[c].total_games = SumOver(recs, c, "total_games")
          /\ store[c].white_wins = SumOver(recs, c, "white_wins")
          /\ store[c].black_wins = SumOver(recs, c, "black_wins")
          /\ store[c].draws = SumOver(recs, c, "draws")
          /\ store[c].total_white_elo = SumOver(recs, c, "total_white_elo")
          /\ store[c].total_black_elo = SumOver(recs, c, "total_black_elo")

C6_TotalsIndependentOfBatching ==
    (faults = 0 /\ games_buffer = <<>>) => TotalsMatch(openings, accepted)

C6_Witness ==
    /\ pc = "done" /\ faults = 0
    /\ Len(upserted) = 2
    /\ \E c \in DOMAIN openings : openings[c].total_games = 2 /\ openings[c].draws = 1

\* C7: a player exists iff its username was observed; its current rating is
\* the last observed rating, its peak the maximum observed rating, and its
\* games_played the number of observations.
ObsOf(u) == SelectSeq(observed, LAMBDA o : o.username = u)

C7_PlayerFollowsObservations ==
    \A u \in Users \cup DOMAIN players :
       LET os == ObsOf(u)
       IN  /\ (u \in DOMAIN players) <=> (os # <<>>)
           /\ os # <<>> =>
                /\ players[u].current_rating = Last(os).rating
                /\ \A i \in 1..Len(os) : players[u].peak_rating >= os[i].rating
                /\ \E i \in 1..Len(os) : players[u].peak_rating = os[i].rating
                /\ players[u].games_played = Len(os)

C7_Witness ==
    \E u \in DOMAIN players :
       /\ Len(ObsOf(u)) = 2
       /\ ObsOf(u)[2].rating < ObsOf(u)[1].rating
       /\ players[u].current_rating = ObsOf(u)[2].rating
       /\ players[u].peak_rating = ObsOf(u)[1].rating
       /\ players[u].games_played = 2

\* C8: the two-block end-to-end scenario in the wire format with
\* batch_size 10 ends with two inserted games, Alice(1520, 1520, 2),
\* Bob(1600, 1600, 1), Carol(1800, 1800, 1) and B01 with 2 games, 1 white
\* win, 1 draw and no black win.
Player(c, p, n) == [current_rating |-> c, peak_rating |-> p, games_played |-> n]

C8_EndToEnd ==
    (stream = E2EStream /\ batch_size = 10 /\ max_games = 0 /\ db_up /\ max_memory_bytes > 0
       /\ faults = 0 /\ pc = "done")
    => /\ Len(games) = 2
       /\ {"Alice", "Bob", "Carol"} \subseteq DOMAIN players
       /\ players["Alice"] = Player(1520, 1520, 2)
       /\ players["Bob"] = Player(1600, 1600, 1)
       /\ players["Carol"] = Player(1800, 1800, 1)
       /\ "B01" \in DOMAIN openings
       /\ openings["B01"].total_games = 2
       /\ openings["B01"].white_wins = 1
       /\ openings["B01"].draws = 1
       /\ openings["B01"].black_wins = 0

\* C9: every text handed to the parser is one whole block: it holds the
\* block's header lines together with its move line.
C9_UnitIsWholeBlock ==
    \A i \in 1..Len(units) : HasTags(units[i]) /\ HasMoves(units[i])

\* C10: an interrupt between blocks with K >= 1 buffered records hands all
\* K records to the bulk insert before the run returns.
C10_InterruptFlushesBuffer ==
    [][(pc = "loop" /\ pc' = "interrupted" /\ signal_at' = "loop"
          /\ Len(games_buffer) >= 1)
          => /\ Len(handed') = Len(handed) + 1
             /\ Last(handed') = games_buffer
             /\ games_buffer' = <<>>]_vars

C10_Witness ==
    /\ pc = "interrupted" /\ signal_at = "loop" /\ pos <= Len(stream)
    /\ batch_size = 10 /\ max_memory_bytes > 0
    /\ Len(accepted) >= 1
    /\ Len(handed) = 1 /\ handed[1] = accepted

\* C11: a run ended by the stop signal has written exactly one checkpoint
\* when it exits, like a run that reaches the end of the stream.
C11_InterruptWritesCheckpoint ==
    pc = "interrupted" => Len(metadata) = Len(metadata0) + 1

\* C12: at the natural end of the stream the final flush hands a non-empty
\* remainder to the bulk insert whatever its size; the checkpoint is written
\* only after that flush, it is one appended document, and the checkpoints
\* already in the collection stay as they were.
C12_FinalFlushThenCheckpoint ==
    /\ [][(pc = "loop" /\ pos > Len(stream) /\ pc' = "checkpoint" /\ games_buffer # <<>>)
             => /\ Len(handed') = Len(handed) + 1
                /\ Last(handed') = games_buffer
                /\ metadata' = metadata]_vars
    /\ [][(metadata' # metadata)
             => /\ pc = "checkpoint"
                /\ games_buffer = <<>> /\ DOMAIN openings_buffer = {}
                /\ Len(metadata') = Len(metadata) + 1
                /\ SubSeq(metadata', 1, Len(metadata)) = metadata]_vars
    /\ [](pc = "done" => /\ Len(metadata) = Len(metadata0) + 1
                         /\ SubSeq(metadata, 1, Len(metadata0)) = metadata0)

C12_Witness ==
    /\ pc = "done" /\ pos > Len(stream) /\ max_games = 0
    /\ metadata0 # <<>> /\ Len(metadata) = Len(metadata0) + 1
    /\ handed # <<>> /\ Len(Last(handed)) < batch_size /\ max_memory_bytes > 0
    /\ Last(metadata) = Checkpoint(games_processed, parse_errors)

\* C13: a unit the parser rejects is counted as exactly one error and the
\* loop goes on with the next line; an accepted unit is counted once as
\* accepted; so the accepted count plus the error count is always the
\* number of units handed to parse_game.
C13_RejectionNeverAborts ==
    /\ [][(ParsedNow /\ ~AcceptedNow)
             => /\ parse_errors' = parse_errors + 1
                /\ games_processed' = games_processed
                /\ pc' = "loop" /\ pos' = pos + 1]_vars
    /\ [][(ParsedNow /\ AcceptedNow)
             => /\ parse_errors' = parse_errors
                /\ games_processed' = games_processed + 1]_vars
    /\ [](/\ games_processed + parse_errors = Len(units)
          /\ games_processed = Len(accepted))

C13_Witness ==
    /\ pc = "done" /\ max_games = 0 /\ db_up
    /\ Len(units) >= 2 /\ OutOfBounds(units[1])
    /\ parse_errors >= 1 /\ games_processed >= 1
    /\ games_processed + parse_errors = Len(units)
    /\ Last(metadata) = Checkpoint(games_processed, parse_errors)

\* C14: the stored opening name of a code is the one of the upsert that
\* created its row; no later upsert changes it.
C14_NameFirstSeenWins ==
    [][\A c \in DOMAIN openings :
          /\ c \in DOMAIN openings'
          /\ openings'[c].opening_name = openings[c].opening_name]_vars

\* C15: when bulk_insert_games returns, every record of the batch that the
\* server did not refuse has been added to the games collection, the
\* records already there are untouched, and the returned number is the
\* number of records added, also when some records of the batch failed.
InsertReturnedNow == Len(insert_log') = Len(insert_log) + 1

RECURSIVE HandedToUpsert(_, _)
HandedToUpsert(ups, code) ==
    IF ups = <<>> THEN 0
    ELSE (IF code \in DOMAIN Head(ups) THEN Head(ups)[code].total_games ELSE 0)
         + HandedToUpsert(Tail(ups), code)

StillBuffered(code) ==
    IF code \in DOMAIN openings_buffer THEN openings_buffer[code].total_games ELSE 0

C16_DeltasNeverDropped ==
    signal_at = "none"
    => /\ Len(upserted) = Len(handed)
       /\ \A i \in 1..Len(accepted) :
             LET code == accepted[i].eco_code
             IN  SumOver(accepted, code, "total_games")
                    = StillBuffered(code) + HandedToUpsert(upserted, code)

\* C17: a run whose stop signal arrived inside a flush exits with the batch
\* of that flush in the games collection, its accumulator handed to
\* update_opening_statistics and applied, the buffers empty and one
\* checkpoint written.
SignalInFlush == pc = "interrupted" /\ signal_at \in {"insert", "upsert"}

C17_SignalInFlushCompletes ==
    SignalInFlush
    => LET batch == Last(handed)
       IN  /\ \A j \in 1..Len(batch) : \E k \in 1..Len(games) : games[k] = batch[j]
           /\ upserted # <<>>
           /\ \A j \in 1..Len(batch) :
                 /\ batch[j].eco_code \in DOMAIN Last(upserted)
                 /\ batch[j].eco_code \in DOMAIN openings
           /\ games_buffer = <<>>
           /\ Len(metadata) = Len(metadata0) + 1

\* C18: when every bulk insert of a finished run returned, the count in the
\* run's checkpoint is the sum of the numbers bulk_insert_games returned,
\* so it is below the number of buffered records by the number of records
\* that were not persisted.
RECURSIVE SumReturned(_)
SumReturned(log) ==
    IF log = <<>> THEN 0 ELSE Head(log).returned + SumReturned(Tail(log))

C18_CheckpointCountsPersisted ==
    (pc = "done" /\ Len(insert_log) = Len(handed))
    => /\ Last(metadata).games_imported = SumReturned(insert_log)
       /\ Last(metadata).games_imported = Len(games)

\* C19: with an unreachable server no unit is handed to parse_game, nothing
\* is counted as accepted or as a parse error, and no checkpoint is written.
C19_NoBackendAbortsBeforeBlocks ==
    ~db_up => /\ units = <<>>
              /\ games_processed = 0 /\ parse_errors = 0
              /\ metadata = metadata0

\* C20: when the file cannot be opened the run ends at once with the error
\* raised to the caller: no unit is parsed, nothing is buffered, no back-end
\* operation is called, no collection changes and no checkpoint is written.
C20_OpenFailureAborts ==
    /\ [][(pc = "start" /\ ~file_ok) => pc' = "failed"]_vars
    /\ [](~file_ok
          => /\ pc \in {"start", "failed"}
             /\ pos = 1 /\ current_game = <<>> /\ units = <<>>
             /\ games_processed = 0 /\ parse_errors = 0
             /\ games_buffer = <<>> /\ DOMAIN openings_buffer = {}
             /\ handed = <<>> /\ upserted = <<>> /\ observed = <<>>
             /\ players = EmptyMap /\ games = <<>> /\ openings = EmptyMap
             /\ metadata = metadata0)

C20_Witness ==
    /\ ~file_ok /\ pc = "failed" /\ db_up
    /\ stream # <<>> /\ units = <<>> /\ metadata = metadata0

\* C21: a flush whose back-end write fails, wholly or for some records, is
\* not retried and does not end the run: the batch is not kept in the
\* buffer, no record is handed to the bulk insert twice, the loop goes on
\* with the next line, and a run with a reachable server and a readable
\* file never ends in failure.
RECURSIVE SumLen(_)
SumLen(batches) ==
    IF batches = <<>> THEN 0 ELSE Len(Head(batches)) + SumLen(Tail(batches))

WriteFailedNow == faults' = faults + 1 /\ signal_at' = "none"

C21_WriteFaultNeitherRetriesNorAborts ==
    /\ [][(WriteFailedNow /\ ParsedNow)
             => /\ pc' = IF max_games # 0 /\ games_processed' >= max_games
                         THEN "broke" ELSE "loop"
                /\ pos' = pos + 1
                /\ games_buffer' = <<>> /\ DOMAIN openings_buffer' = {}]_vars
    /\ [][(WriteFailedNow /\ ~ParsedNow)
             => pc' = "checkpoint" /\ games_buffer' = <<>>]_vars
    /\ [](/\ SumLen(handed) + Len(games_buffer) = Len(accepted)
          /\ (db_up /\ file_ok) => pc # "failed")

C21_Witness ==
    /\ pc = "done" /\ faults = 1 /\ signal_at = "none"
    /\ Len(handed) = 2 /\ Len(insert_log) = 1 /\ Len(upserted) = 1
    /\ games = handed[2]
    /\ Len(accepted) = 2
    /\ Len(metadata) = Len(metadata0) + 1

\* C22: after every call the ingestor issues, both back ends answered
\* alike and hold the same players (peak, games_played), the same opening
\* totals and the same number of game records.
C22_BackendsEquivalent ==
    pc = "twin"
    => /\ ret # <<>> => ret.mongo = ret.portable
       /\ DOMAIN twin.players = DOMAIN players
       /\ \A u \in DOMAIN players :
             /\ twin.players[u].peak_rating = players[u].peak_rating
             /\ twin.players[u].games_played = players[u].games_played
       /\ twin.openings = openings
       /\ Len(twin.games) = Len(games)

\* C23: when two workers have both finished get_or_create_player for the
\* same username, unseen before, neither call raised and the collection
\* holds exactly one document for it, with games_played 2 and the larger
\* of the two ratings as peak.
BothCalled ==
    /\ pc = "workers"
    /\ \A w \in Workers : workers[w].pc \in {"done", "raised"}
    /\ workers[1].username = workers[2].username

C23_ConcurrentResolveOnePlayer ==
    BothCalled
    => /\ \A w \in Workers : workers[w].pc = "done"
       /\ Len(docs) = 1
       /\ docs[1].username = workers[1].username
       /\ docs[1].games_played = 2
       /\ docs[1].peak_rating = Max(workers[1].rating, workers[2].rating)

\* C24: at every point of two interleaved flushes, the totals of an opening
\* code are what the collection held before plus the deltas of the
\* UpdateOne operations applied so far; when both flushes are over they
\* are the earlier totals plus both workers' deltas, whatever the order.
Totals == {"total_games", "white_wins", "black_wins", "draws",
           "total_white_elo", "total_black_elo"}

TotalIn(store, code, what) == IF code \in DOMAIN store THEN store[code][what] ELSE 0

AppliedBy(w, code, what) ==
    IF code \in DOMAIN workers[w].delta /\ code \notin workers[w].todo
    THEN workers[w].delta[code][what] ELSE 0

C24_ConcurrentUpsertsAdd ==
    pc = "upserts"
    => \A code \in DOMAIN openings \cup DOMAIN arg
                   \cup DOMAIN workers[1].delta \cup DOMAIN workers[2].delta :
          \A what \in Totals :
             TotalIn(openings, code, what)
                = TotalIn(arg, code, what) + AppliedBy(1, code, what)
                     + AppliedBy(2, code, what)

C24_Witness ==
    /\ pc = "upserts"
    /\ \A w \in Workers : workers[w].pc = "done"
    /\ "B01" \in DOMAIN arg
    /\ workers[1].delta # workers[2].delta
    /\ "B01" \in DOMAIN workers[1].delta /\ "B01" \in DOMAIN workers[2].delta
    /\ openings["B01"].total_games = arg["B01"].total_games + 2
    /\ openings["B01"].draws = arg["B01"].draws + 1

\* C25: a get_or_create_player call, or an update_opening_statistics call,
\* that repeats the call before it with the same arguments leaves the
\* players and the openings as the first call left them.
RetriedNow ==
    /\ pc = "twin" /\ arg # <<>> /\ arg' = arg
    /\ Len(observed') = Len(observed) + 1
    /\ arg.op \in {"get_or_create_player", "update_opening_statistics"}

C25_RetryIsIdempotent ==
    [][RetriedNow => (players' = players /\ openings' = openings)]_vars

\* C26: every record in the games collection is a record the parser
\* returned, and load_games for either of its players gives a row with the
\* record's opening code, its result and its number of moves.
Reproduces(row, g) ==
    /\ row.eco = g.eco_code
    /\ row.result = g.result
    /\ row.ply_count = Len(g.moves) /\ Len(row.moves) = Len(g.moves)

C26_LoadReproducesRecord ==
    pc \in {"start", "loop", "broke", "checkpoint", "done", "interrupted", "failed"}
    => \A k \in 1..Len(games) :
          /\ \E i \in 1..Len(accepted) : accepted[i] = games[k]
          /\ \A u \in {games[k].white_player_id, games[k].black_player_id} :
                LET rows == load_games(players, games, u, LoadLimit)
                IN  \E j \in 1..Len(rows) : Reproduces(rows[j], games[k])

C26_Witness ==
    /\ pc = "done" /\ Len(games) = 2
    /\ games[1].eco_code = "B01" /\ games[1].result = "1-0"
    /\ games[2].result = "1/2-1/2"
    /\ Len(load_games(players, games, "Alice", LoadLimit)) = 2
    /\ load_games(players, games, "Bob", LoadLimit)[1].user_color = "black"
    /\ load_games(players, games, "Bob", LoadLimit)[1].ply_count = Len(games[1].moves)

\* C27: for every opening code of the accumulator and of the openings
\* collection no counter is negative and total_games is white_wins +
\* black_wins + draws + the number of counted games of that code whose
\* result is none of 1-0, 0-1, 1/2-1/2 (for the collection, in runs without
\* a back-end fault, the games handed to the back end); a game with such a
\* result adds 1 to total_games, its ratings to the rating sums and nothing
\* to the three buckets.
Recognized == {"1-0", "0-1", "1/2-1/2"}

Unrecognized(recs, code) ==
    Cardinality({i \in 1..Len(recs) :
                    recs[i].eco_code = code /\ recs[i].result \notin Recognized})

RECURSIVE UnrecognizedIn(_, _)
UnrecognizedIn(batches, code) ==
    IF batches = <<>> THEN 0
    ELSE Unrecognized(Head(batches), code) + UnrecognizedIn(Tail(batches), code)

Buckets(row) == row.white_wins + row.black_wins + row.draws

NoneNegative(row) ==
    /\ row.total_games >= 0 /\ row.white_wins >= 0 /\ row.black_wins >= 0
    /\ row.draws >= 0 /\ row.total_white_elo >= 0 /\ row.total_black_elo >= 0

C27_TotalIsBucketsPlusUnrecognized ==
    /\ [](\A c \in DOMAIN openings_buffer :
             /\ NoneNegative(openings_buffer[c])
             /\ openings_buffer[c].total_games
                   = Buckets(openings_buffer[c]) + Unrecognized(games_buffer, c))
    /\ [](\A c \in DOMAIN openings :
             /\ NoneNegative(openings[c])
             /\ openings[c].total_games >= Buckets(openings[c])
             /\ faults = 0 => openings[c].total_games
                                 = Buckets(openings[c]) + UnrecognizedIn(handed, c))
    /\ [][(AcceptedNow /\ Last(accepted').result \notin Recognized
              /\ openings_buffer' # EmptyMap /\ Last(accepted').eco_code \in DOMAIN openings_buffer)
             => LET c == Last(accepted').eco_code
                    old == openings_buffer[c]
                    new == openings_buffer'[c]
                IN  /\ new.total_games = old.total_games + 1
                    /\ new.total_white_elo = old.total_white_elo + Last(accepted').white_elo
                    /\ new.total_black_elo = old.total_black_elo + Last(accepted').black_elo
                    /\ new.white_wins = old.white_wins /\ new.black_wins = old.black_wins
                    /\ new.draws = old.draws]_vars

C27_Witness ==
    /\ pc = "done" /\ faults = 0
    /\ \E c \in DOMAIN openings :
          /\ openings[c].total_games = 2
          /\ Buckets(openings[c]) = 1
          /\ UnrecognizedIn(handed, c) = 1

\* C28: over any sequence of get_or_create_player calls, on either back end,
\* a player once created stays in the store, its peak rating never decreases
\* and is at least its current rating, and its games_played never decreases:
\* a call that names the player adds exactly 1 to it and a call that names
\* another player leaves it alone.
ObservedNow == Len(observed') = Len(observed) + 1

C28_PlayerLifecycle ==
    /\ [](\A u \in DOMAIN players :
             /\ players[u].peak_rating >= players[u].current_rating
             /\ players[u].games_played >= 1)
    /\ [][\A u \in DOMAIN players :
             /\ u \in DOMAIN players'
             /\ players'[u].peak_rating >= players[u].peak_rating
             /\ players'[u].games_played >= players[u].games_played
             /\ ObservedNow =>
                  players'[u].games_played
                     = players[u].games_played
                         + (IF Last(observed').username = u THEN 1 ELSE 0)]_vars

C28_Witness ==
    \E u \in DOMAIN players :
       /\ backend = "sqlite"
       /\ players[u].games_played = 2
       /\ players[u].current_rating < players[u].peak_rating
       /\ players[u].current_rating # 0
       /\ \E v \in DOMAIN players : v # u

\* ---------------------------------------------- categorize_time_control
\* Strings are sequences of one-character strings, so that int(), split()
\* and str() are computed character by character.
DigitChars == <<"0", "1", "2", "3", "4", "5", "6", "7", "8", "9">>

IsDigit(c) == \E i \in 1..Len(DigitChars) : DigitChars[i] = c
DigitValue(c) == (CHOOSE i \in 1..Len(DigitChars) : DigitChars[i] = c) - 1

\* str(n) of a non-negative int: how a TimeControl header is written
RECURSIVE str(_)
str(n) ==
    IF n < Len(DigitChars) THEN <<DigitChars[n + 1]>>
    ELSE str(n \div Len(DigitChars)) \o <<DigitChars[(n % Len(DigitChars)) + 1]>>

contains(s, c) == \E i \in 1..Len(s) : s[i] = c

\* s.split(sep) for a one-character separator
RECURSIVE split(_, _)
split(s, sep) ==
    IF ~contains(s, sep) THEN <<s>>
    ELSE LET i == CHOOSE k \in 1..Len(s) :
                      s[k] = sep /\ \A j \in 1..(k - 1) : s[j] # sep
         IN  <<SubSeq(s, 1, i - 1)>> \o split(SubSeq(s, i + 1, Len(s)), sep)

\* int(s) of a character sequence: surrounding blanks are dropped, one sign is allowed, and the rest
\* must be one or more digits; anything else raises ValueError (ok = FALSE)
RECURSIVE strip(_)
strip(s) ==
    IF s = <<>> THEN s
    ELSE IF Head(s) = " " THEN strip(Tail(s))
    ELSE IF s[Len(s)] = " " THEN strip(SubSeq(s, 1, Len(s) - 1))
    ELSE s

RECURSIVE digits_value(_)
digits_value(ds) ==
    IF ds = <<>> THEN 0
    ELSE digits_value(SubSeq(ds, 1, Len(ds) - 1)) * Len(DigitChars)
            + DigitValue(ds[Len(ds)])

Raised == [ok |-> FALSE, value |-> 0]
Returned(v) == [ok |-> TRUE, value |-> v]

int_of(s) ==
    LET t == strip(s)
        signed == t # <<>> /\ Head(t) \in {"-", "+"}
        body == IF signed THEN Tail(t) ELSE t
    IN  IF body = <<>> \/ \E i \in 1..Len(body) : ~IsDigit(body[i]) THEN Raised
        ELSE IF signed /\ Head(t) = "-" THEN Returned(0 - digits_value(body))
        ELSE Returned(digits_value(body))

\* the body of the try block up to total_seconds; unpacking the split into
\* base, increment raises unless there are exactly two parts
total_seconds(time_control_str) ==
    IF contains(time_control_str, "+")
    THEN LET parts == split(time_control_str, "+")
         IN  IF Len(parts) # 2 THEN Raised
             ELSE LET base == int_of(parts[1])
                      increment == int_of(parts[2])
                  IN  IF ~base.ok \/ ~increment.ok THEN Raised
                      ELSE Returned(base.value + 40 * increment.value)
    ELSE int_of(time_control_str)

categorize_time_control_inclusive(time_control_str) ==
    IF time_control_str = <<>> \/ time_control_str = <<"-">> THEN "unknown"
    ELSE LET t == total_seconds(time_control_str)
         IN  IF ~t.ok THEN "unknown"
             ELSE IF t.value <= 180 THEN "bullet"
             ELSE IF t.value <= 600 THEN "blitz"
             ELSE IF t.value <= 1500 THEN "rapid"
             ELSE "classical"
categorize_time_control(time_control_str) ==
    IF time_control_str = <<>> \/ time_control_str = <<"-">> THEN "unknown"
    ELSE LET t == total_seconds(time_control_str)
         IN  IF ~t.ok THEN "unknown"
             ELSE IF t.value < 180 THEN "bullet"
             ELSE IF t.value < 600 THEN "blitz"
             ELSE IF t.value < 1500 THEN "rapid"
             ELSE "classical"

\* TimeControl headers handed to the function: base+increment around every
\* threshold, and headers that are empty, "-", or not two integers
Bases == {0, 59, 60, 139, 140, 179, 180, 300, 599, 600, 900, 1499, 1500, 5400}
Increments == {0, 1, 3, 15, 38}

BasePlusIncrement(b, i) == str(b) \o <<"+">> \o str(i)

Unparsable ==
    { <<>>, <<"-">>, <<"x">>, <<"+">>, <<"6", "0", "+">>, <<"+", "3">>,
      <<"6", "0", "+", "x">>, <<"1", "+", "2", "+", "3">>,
      <<"1", ".", "5", "+", "0">>, <<"6", "0", "|", "3">>, <<" ">> }

NoIncrement == { <<"3", "0", "0">>, <<"-", "5">>, <<" ", "6", "0", "+", "3">> }

TimeControls ==
    {BasePlusIncrement(b, i) : b \in Bases, i \in Increments}
        \cup Unparsable \cup NoIncrement

InitTimeControl ==
    /\ backend = "mongo"
    /\ db_up = TRUE /\ batch_size = 10 /\ max_memory_bytes = 1024 * 1024 /\ max_games = 0
    /\ file_ok = TRUE /\ metadata0 = <<>>
    /\ stream = <<>> /\ pos = 1
    /\ pc = "time_control"
    /\ InitStores
    /\ workers = <<>> /\ docs = <<>> /\ unique_index = FALSE /\ twin = <<>>
    /\ arg \in TimeControls
    /\ ret = <<>>

HelperFrame ==
    UNCHANGED <<config, workers, docs, unique_index, twin, arg, pos, current_game,
                games_processed, parse_errors, games_buffer, openings_buffer, players,
                games, openings, metadata, units, accepted, handed, upserted, observed,
                faults, insert_log, signal_at>>

\* "time_control": categorize_time_control(headers.get("TimeControl", ""))
CategorizeTimeControl ==
    /\ pc = "time_control"
    /\ ret' = <<categorize_time_control(arg)>>
    /\ pc' = "returned"
    /\ HelperFrame

NextTimeControl == CategorizeTimeControl

SpecTimeControl == InitTimeControl /\ [][NextTimeControl]_vars

\* C29: for a time control "base+increment" of two non-negative integers the
\* category is the one of t = base + 40 * increment (bullet below 180, blitz
\* from 180 below 600, rapid from 600 below 1500, classical from 1500), and
\* for an empty or unparsable time control the function returns unknown; it
\* returns a category for every input.
CategoryOf(t) ==
    CASE t < 180 -> "bullet"
      [] 180 <= t /\ t < 600 -> "blitz"
      [] 600 <= t /\ t < 1500 -> "rapid"
      [] t >= 1500 -> "classical"

C29_TimeControlCategory ==
    pc = "returned" =>
       /\ ret \in {<<c>> : c \in {"bullet", "blitz", "rapid", "classical", "unknown"}}
       /\ \A b \in Bases, i \in Increments :
             arg = BasePlusIncrement(b, i) => ret = <<CategoryOf(b + 40 * i)>>
       /\ arg \in Unparsable => ret = <<"unknown">>

C29_Witness ==
    /\ pc = "returned"
    /\ arg = BasePlusIncrement(60, 3)
    /\ ret = <<"blitz">>

\* ------------------------------------------------------- extract_title
LowerChars == <<"a", "b", "c", "d", "e", "f", "g", "h", "i", "j", "k", "l", "m",
                "n", "o", "p", "q", "r", "s", "t", "u", "v", "w", "x", "y", "z">>
UpperChars == <<"A", "B", "C", "D", "E", "F", "G", "H", "I", "J", "K", "L", "M",
                "N", "O", "P", "Q", "R", "S", "T", "U", "V", "W", "X", "Y", "Z">>

\* username.upper()
upper(s) ==
    [k \in 1..Len(s) |->
        IF \E i \in 1..Len(LowerChars) : LowerChars[i] = s[k]
        THEN UpperChars[CHOOSE i \in 1..Len(LowerChars) : LowerChars[i] = s[k]]
        ELSE s[k]]

startswith(s, prefix) ==
    Len(s) >= Len(prefix) /\ SubSeq(s, 1, Len(prefix)) = prefix
endswith(s, suffix) ==
    Len(s) >= Len(suffix) /\ SubSeq(s, Len(s) - Len(suffix) + 1, Len(s)) = suffix

titles == << <<"G", "M">>, <<"I", "M">>, <<"F", "M">>, <<"C", "M">>,
             <<"W", "G", "M">>, <<"W", "I", "M">>, <<"W", "F", "M">>,
             <<"W", "C", "M">> >>

\* None, the answer for a username that carries no title
NoTitle == <<>>

\* the condition of the if inside the loop
title_matches_underscore_only(username_upper, title) ==
    \/ startswith(username_upper, title \o <<"_">>)
    \/ endswith(username_upper, <<"_">> \o title)
title_matches(username_upper, title) ==
    \/ startswith(username_upper, title \o <<"_">>)
    \/ startswith(username_upper, title \o <<"-">>)
    \/ endswith(username_upper, <<"_">> \o title)
    \/ endswith(username_upper, <<"-">> \o title)

\* for title in titles: ... return title; return None
RECURSIVE title_loop(_, _)
title_loop(username_upper, rest) ==
    IF rest = <<>> THEN NoTitle
    ELSE IF title_matches(username_upper, Head(rest)) THEN Head(rest)
    ELSE title_loop(username_upper, Tail(rest))

extract_title(username) == title_loop(upper(username), titles)

\* usernames: an optional title in front, a name, an optional title behind;
\* titles in either case, joined by "_" or "-" or not joined at all
Separators == {"_", "-"}
Names == { <<"C", "a", "r", "l", "s", "e", "n">>, <<"x">> }
Fronts ==
    { <<>>, <<"G", "M">> }
       \cup {titles[i] \o <<sep>> : i \in 1..Len(titles), sep \in Separators}
       \cup { <<"g", "m", "_">>, <<"w", "g", "m", "-">> }
Backs ==
    { <<>>, <<"G", "M">> }
       \cup {<<sep>> \o titles[i] : i \in 1..Len(titles), sep \in Separators}
       \cup { <<"_", "g", "m">>, <<"-", "w", "g", "m">> }
Usernames == {f \o n \o b : f \in Fronts, n \in Names, b \in Backs}

InitTitle ==
    /\ backend = "mongo"
    /\ db_up = TRUE /\ batch_size = 10 /\ max_memory_bytes = 1024 * 1024 /\ max_games = 0
    /\ file_ok = TRUE /\ metadata0 = <<>>
    /\ stream = <<>> /\ pos = 1
    /\ pc = "title"
    /\ InitStores
    /\ workers = <<>> /\ docs = <<>> /\ unique_index = FALSE /\ twin = <<>>
    /\ arg \in Usernames
    /\ ret = <<>>

\* white_title = extract_title(white_username)
ExtractTitle ==
    /\ pc = "title"
    /\ ret' = <<extract_title(arg)>>
    /\ pc' = "returned"
    /\ HelperFrame

NextTitle == ExtractTitle

SpecTitle == InitTitle /\ [][NextTitle]_vars

\* C30 as stated: the title returned is T exactly when the username, as
\* written, begins with T and "_" or "-" or ends with "_" or "-" and T, and
\* no title is returned exactly when that holds for no T.
TitleSet == {titles[i] : i \in 1..Len(titles)}

Carries(username, T) ==
    \/ \E sep \in Separators : startswith(username, T \o <<sep>>)
    \/ \E sep \in Separators : endswith(username, <<sep>> \o T)

C30_TitleExactlyWhenCarried ==
    pc = "returned" =>
       /\ \A T \in TitleSet : (ret = <<T>>) <=> Carries(arg, T)
       /\ (ret = <<NoTitle>>) <=> (\A T \in TitleSet : ~Carries(arg, T))

\* C30, amended: the title returned is the first T, in the order GM, IM, FM,
\* CM, WGM, WIM, WFM, WCM, that the username carries when letter case is
\* ignored, and no title exactly when it carries none; a username that
\* carries only a women's title gets that title and not GM, IM, FM or CM;
\* GM_Carlsen and Carlsen_GM give GM and Carlsen gives none.
CarriedIgnoringCase(username) ==
    {i \in 1..Len(titles) : Carries(upper(username), titles[i])}

First(S) == CHOOSE i \in S : \A j \in S : i <= j

Carlsen == <<"C", "a", "r", "l", "s", "e", "n">>

C30_FirstTitleCarriedIgnoringCase ==
    pc = "returned" =>
       LET hits == CarriedIgnoringCase(arg)
       IN  /\ hits = {} => ret = <<NoTitle>>
           /\ hits # {} => ret = <<titles[First(hits)]>>
           /\ \A i \in 5..8 : hits = {i} => ret = <<titles[i]>> /\ ret # <<titles[i - 4]>>
           /\ arg \in {<<"G", "M", "_">> \o Carlsen, Carlsen \o <<"_", "G", "M">>}
                 => ret = << <<"G", "M">> >>
           /\ arg = Carlsen => ret = <<NoTitle>>

C30_Witness ==
    /\ pc = "returned"
    /\ arg = <<"W", "G", "M", "-">> \o Carlsen
    /\ ret = << <<"W", "G", "M">> >>

\* ------------------------------------------- the games of both back ends
\* save_games, insert_game and update_game called directly, as the
\* application does.  A Mongo document and an SQLite row are functions from
\* field names to values; the values that update_game can touch are
\* sequences of strings, None being the empty one, so that json.dumps and
\* json.loads are computed and not assumed.
GameIds == {"g1", "g2"}
None == <<>>

json_dumps(v) == <<"json">> \o v
json_loads(s) == Tail(s)

\* a row of the DataFrame handed to save_games / a game dict handed to
\* insert_game
GameRow(id, w, b) ==
    [game_id |-> id, white_user |-> w, black_user |-> b, rating |-> 1500]

GameRows == {GameRow("g1", "Alice", "Bob"), GameRow("g2", "Bob", "Alice")}

DataFrames ==
    {<<r>> : r \in GameRows} \cup {<<r, s>> : r \in GameRows, s \in GameRows}

\* game_doc of ChessDatabaseManager.save_games
game_doc(row) ==
    [game_id |-> row.game_id, white |-> row.white_user, black |-> row.black_user,
     clock |-> None, analysis |-> None]

\* the columns of CREATE TABLE games that the model follows
Columns == {"game_id", "white_user", "black_user", "acpl", "clock_settings", "analysis"}

\* the VALUES of INSERT INTO games in PortableDatabaseManager.save_games
game_values(row) ==
    [game_id |-> row.game_id, white_user |-> row.white_user,
     black_user |-> row.black_user, acpl |-> None,
     clock_settings |-> json_dumps(None), analysis |-> json_dumps(None)]

game_exists(rows, id) == \E i \in 1..Len(rows) : rows[i].game_id = id

Saved(g, p, n) == [games |-> g, players |-> p, returned |-> n, raised |-> FALSE]

\* ChessDatabaseManager.save_games: both players of every row are resolved,
\* every row becomes a document, and the documents go to bulk_insert_games
RECURSIVE save_games_players(_, _)
save_games_players(pstore, df) ==
    IF df = <<>> THEN pstore
    ELSE LET row == Head(df)
             p1 == get_or_create_player(pstore, row.white_user, row.rating)
             p2 == get_or_create_player(p1, row.black_user, row.rating)
         IN  save_games_players(p2, Tail(df))

save_games(coll, pstore, df) ==
    LET games_to_insert == [i \in 1..Len(df) |-> game_doc(df[i])]
    IN  Saved(bulk_insert_games(coll, games_to_insert, {}),
              save_games_players(pstore, df),
              bulk_insert_games_returned(games_to_insert, {}))

\* ChessDatabaseManager.insert_game: self.games.insert_one(game_data)
insert_game(coll, pstore, row) == Saved(Append(coll, game_doc(row)), pstore, 1)

\* PortableDatabaseManager.save_games: per row, the two players are
\* resolved, then the game is looked up by game_id and skipped if present
RECURSIVE portable_save_games(_, _, _, _)
portable_save_games(rows, pstore, df, count) ==
    IF df = <<>> THEN Saved(rows, pstore, count)
    ELSE LET row == Head(df)
             p1 == portable_get_or_create_player(pstore, row.white_user, row.rating)
             p2 == portable_get_or_create_player(p1, row.black_user, row.rating)
         IN  IF game_exists(rows, row.game_id)
             THEN portable_save_games(rows, p2, Tail(df), count)
             ELSE portable_save_games(Append(rows, game_values(row)), p2, Tail(df),
                                      count + 1)

\* PortableDatabaseManager.insert_game, the second definition in the class
\* body, which is the one bound to the name: a game that is present is
\* answered with its id; for a new one the players are resolved and the
\* INSERT names these columns
insert_game_columns ==
    {"game_id", "white_user", "black_user", "acpl", "clock", "analysis"}

portable_insert_game(rows, pstore, row) ==
    IF game_exists(rows, row.game_id)
    THEN Saved(rows, pstore, CHOOSE i \in 1..Len(rows) : rows[i].game_id = row.game_id)
    ELSE LET p1 == portable_get_or_create_player(pstore, row.white_user, row.rating)
             p2 == portable_get_or_create_player(p1, row.black_user, row.rating)
         IN  IF insert_game_columns \subseteq Columns
             THEN Saved(Append(rows, game_values(row)), p2, Len(rows) + 1)
             ELSE [games |-> rows, players |-> p2, returned |-> 0, raised |-> TRUE]

\* ChessDatabaseManager.update_game: update_one({"game_id": game_id},
\* {"$set": updates}) patches the first matching document;
\* modified_count counts a document only if it changed
set_fields(doc, updates) ==
    [k \in DOMAIN doc \cup DOMAIN updates |->
        IF k \in DOMAIN updates THEN updates[k] ELSE doc[k]]

Updated(g, r) == [games |-> g, returned |-> r]

update_game_all_documents(coll, game_id, updates) ==
    LET new == [i \in 1..Len(coll) |-> set_fields(coll[i], updates)]
    IN  Updated(new, new # coll)
update_game(coll, game_id, updates) ==
    LET hits == {i \in 1..Len(coll) : coll[i].game_id = game_id}
    IN  IF hits = {} THEN Updated(coll, FALSE)
        ELSE LET i == CHOOSE h \in hits : \A j \in hits : h <= j
                 new == set_fields(coll[i], updates)
             IN  Updated([coll EXCEPT ![i] = new], new # coll[i])

\* PortableDatabaseManager.update_game: one UPDATE games SET ... WHERE
\* game_id = ?; the JSON fields are stored through json.dumps, 'clock' goes
\* to the column clock_settings, and a key that is not a column makes the
\* statement fail, which is logged and answered with False
JsonKeys == {"clocks", "clock", "analysis", "white_analysis", "black_analysis"}

col_name(key) == IF key = "clock" THEN "clock_settings" ELSE key
val_to_store(key, value) == IF key \in JsonKeys THEN json_dumps(value) ELSE value

portable_update_game(rows, game_id, updates) ==
    IF updates = EmptyMap THEN Updated(rows, FALSE)
    ELSE IF ~({col_name(k) : k \in DOMAIN updates} \subseteq Columns)
    THEN Updated(rows, FALSE)
    ELSE LET patched(r) ==
                [c \in Columns |->
                    IF \E k \in DOMAIN updates : col_name(k) = c
                    THEN LET k == CHOOSE k \in DOMAIN updates : col_name(k) = c
                         IN  val_to_store(k, updates[k])
                    ELSE r[c]]
         IN  Updated([i \in 1..Len(rows) |->
                         IF rows[i].game_id = game_id THEN patched(rows[i]) ELSE rows[i]],
                     game_exists(rows, game_id))

\* the updates tried: nothing, a plain column, a JSON field, the JSON field
\* stored under another column name, a field the table has no column for
UpdateSets ==
    { EmptyMap,
      [k \in {"acpl"} |-> <<"30">>],
      [k \in {"analysis"} |-> <<"a1">>],
      [k \in {"clock"} |-> <<"c1">>],
      [k \in {"acpl", "clock"} |-> <<"31">>],
      [k \in {"accuracy"} |-> <<"90">>] }

InitGames ==
    /\ backend \in {"mongo", "sqlite"}
    /\ db_up = TRUE /\ batch_size = 10 /\ max_memory_bytes = 1024 * 1024 /\ max_games = 0
    /\ file_ok = TRUE /\ metadata0 = <<>>
    /\ stream = <<>> /\ pos = 1
    /\ pc = "games"
    /\ InitStores /\ InitAux

GamesFrame ==
    UNCHANGED <<config, workers, docs, unique_index, twin, pos, current_game,
                games_processed, parse_errors, games_buffer, openings_buffer, openings,
                metadata, pc, units, accepted, handed, upserted, faults, insert_log,
                signal_at>>

Called(op) ==
    /\ pc = "games" /\ Len(observed) < MaxObs
    /\ observed' = Append(observed, [username |-> op, rating |-> 0])

\* saved_count = db.save_games(df)
SaveGames(df) ==
    /\ Called("save_games")
    /\ LET r == IF backend = "mongo" THEN save_games(games, players, df)
                ELSE portable_save_games(games, players, df, 0)
       IN  /\ games' = r.games /\ players' = r.players
           /\ arg' = Call("save_games", df)
           /\ ret' = r
    /\ GamesFrame

InsertGame(row) ==
    /\ Called("insert_game")
    /\ LET r == IF backend = "mongo" THEN insert_game(games, players, row)
                ELSE portable_insert_game(games, players, row)
       IN  /\ games' = r.games /\ players' = r.players
           /\ arg' = Call("insert_game", <<row>>)
           /\ ret' = r
    /\ GamesFrame

UpdateGame(game_id, updates) ==
    /\ Called("update_game")
    /\ LET r == IF backend = "mongo" THEN update_game(games, game_id, updates)
                ELSE portable_update_game(games, game_id, updates)
       IN  /\ games' = r.games /\ players' = players
           /\ arg' = [op |-> "update_game", game_id |-> game_id, updates |-> updates]
           /\ ret' = r
    /\ GamesFrame

NextGames ==
    \/ \E df \in DataFrames : SaveGames(df)
    \/ \E row \in GameRows : InsertGame(row)
    \/ \E id \in GameIds, u \in UpdateSets : UpdateGame(id, u)

SpecGames == InitGames /\ [][NextGames]_vars

\* C31: update_game(game_id, updates) leaves every record with another
\* game_id as it was, changes on a matching record only the fields named in
\* updates (in the relational store the columns they are stored in), gives
\* the named fields the new values on a matching record when it returns
\* True, and when no record matches changes nothing and returns False.
UpdateNow ==
    /\ pc = "games" /\ Len(observed') = Len(observed) + 1
    /\ arg'.op = "update_game"

MatchesOf(coll, id) == {i \in 1..Len(coll) : coll[i].game_id = id}

\* the value of a field as the application reads it back
field(row, key) ==
    IF backend = "mongo" THEN row[key]
    ELSE IF key \in JsonKeys THEN json_loads(row[col_name(key)])
    ELSE row[key]

StoredUnder(updates) ==
    IF backend = "mongo" THEN DOMAIN updates ELSE {col_name(k) : k \in DOMAIN updates}

InsertNow ==
    /\ pc = "games" /\ backend = "sqlite" /\ Len(observed') = Len(observed) + 1
    /\ arg'.op \in {"save_games", "insert_game"}

RowsWith(coll, id) == Cardinality({i \in 1..Len(coll) : coll[i].game_id = id})

C32_InsertIfAbsent ==
    [][InsertNow =>
         LET handed_over == {arg'.args[i].game_id : i \in 1..Len(arg'.args)}
         IN  /\ Len(games') >= Len(games)
             /\ SubSeq(games', 1, Len(games)) = games
             /\ \A id \in handed_over : RowsWith(games', id) = 1
             /\ (\A id \in handed_over : game_exists(games, id)) =>
                   /\ games' = games
                   /\ arg'.op = "save_games" => ret'.returned = 0]_vars

\* ------------------------- several ingest_pgn_file calls on one instance
\* parser = OptimizedPGNParser(db); parser.ingest_pgn_file(path) again after
\* a run that returned: the locals of ingest_pgn_file start afresh, the
\* attributes set in __init__ (games_buffer, openings_buffer, parse_errors)
\* are those the earlier run left.  units, accepted, handed, upserted,
\* insert_log and observed record the current run only.
InitRuns ==
    /\ backend = "mongo"
    /\ db_up = TRUE /\ file_ok = TRUE /\ metadata0 = <<>>
    /\ batch_size = 10 /\ max_memory_bytes = 1024 * 1024 /\ max_games = 0
    /\ stream \in Streams
    /\ pos = 1
    /\ pc = "start"
    /\ InitStores /\ InitAux

Rerun ==
    /\ pc = "done" /\ Len(metadata) < MaxRuns
    /\ pc' = "start"
    /\ pos' = 1 /\ current_game' = <<>> /\ games_processed' = 0
    /\ units' = <<>> /\ accepted' = <<>> /\ handed' = <<>> /\ upserted' = <<>>
    /\ insert_log' = <<>> /\ observed' = <<>> /\ signal_at' = "none"
    /\ UNCHANGED <<config, aux, parse_errors, games_buffer, openings_buffer, players,
                   games, openings, metadata, faults>>

NextRuns == Next \/ Rerun

SpecRuns == InitRuns /\ [][NextRuns]_vars

\* C33: the parse_errors of the checkpoint a run writes is the number of
\* units that run handed to parse_game and got rejected, also in a later
\* run of the same parser instance.
C33_CheckpointCountsThisRunsErrors ==
    (pc = "done" /\ metadata # <<>>) =>
        Last(metadata).parse_errors = Len(units) - Len(accepted)

\* C34: with batch_size >= 1 the record buffer never holds more than
\* batch_size records, not even right after the append that precedes the
\* flush test, and it holds fewer than batch_size records whenever the
\* ingestor goes on to its next line.
C34_BufferBounded ==
    /\ [](batch_size >= 1 => Len(games_buffer) < batch_size)
    /\ [][(AcceptedNow /\ batch_size >= 1) => Len(games_buffer) + 1 <= batch_size]_vars

C34_Witness ==
    /\ batch_size = 2 /\ pc = "loop" /\ pos <= Len(stream)
    /\ games_buffer = <<>>
    /\ Len(handed) = 1 /\ Len(handed[1]) = 2

\* C35: when a run without max_games has written its checkpoint, every
\* non-blank line of the stream has been handed to parse_game exactly once,
\* in order, also the lines of a last block that the end of the stream
\* rather than a blank line terminates: no text is left unparsed.
NonBlank(lines) == SelectSeq(lines, LAMBDA l : l.kind # "blank")

C35_EveryBlockParsedOnce ==
    (pc = "done" /\ max_games = 0) =>
        /\ Concat(units) = NonBlank(stream)
        /\ current_game = <<>>

InitPair ==
    /\ backend = "both"
    /\ db_up = TRUE /\ batch_size = 10 /\ max_memory_bytes = 1024 * 1024 /\ max_games = 0
    /\ file_ok = TRUE /\ metadata0 = <<>>
    /\ stream = <<>> /\ pos = 1
    /\ pc = "pair"
    /\ InitStores
    /\ workers = <<>> /\ docs = <<>> /\ unique_index = FALSE /\ arg = <<>> /\ ret = <<>>
    /\ twin = Answers(EmptyMap, EmptyMap)

ObserveBoth(u, r) ==
    /\ pc = "pair" /\ Len(observed) < MaxObs
    /\ observed' = Append(observed, [username |-> u, rating |-> r])
    /\ twin' = Answers(get_or_create_player(twin.mongo, u, r),
                       portable_get_or_create_player(twin.portable, u, r))
    /\ UNCHANGED <<config, workers, docs, unique_index, arg, ret, pos, current_game,
                   games_processed, parse_errors, games_buffer, openings_buffer, players,
                   games, openings, metadata, pc, units, accepted, handed, upserted,
                   faults, insert_log, signal_at>>

NextPair == \E u \in Users, r \in Ratings : ObserveBoth(u, r)

SpecPair == InitPair /\ [][NextPair]_vars

\* C37: after every observation of a sequence of (username, rating) pairs
\* with ratings in 0..3500 the document store and the relational store hold
\* the same usernames and for each the same current rating, peak rating and
\* games_played.
C37_SamePlayerState ==
    pc = "pair" =>
       /\ DOMAIN twin.mongo = DOMAIN twin.portable
       /\ \A u \in DOMAIN twin.mongo :
             /\ twin.mongo[u].current_rating = twin.portable[u].current_rating
             /\ twin.mongo[u].peak_rating = twin.portable[u].peak_rating
             /\ twin.mongo[u].games_played = twin.portable[u].games_played

C37_Witness ==
    /\ pc = "pair" /\ Len(observed) = 3
    /\ \E u \in DOMAIN twin.portable :
          /\ twin.portable[u].current_rating = 0
          /\ twin.portable[u].peak_rating = 1520
          /\ twin.portable[u].games_played = 3
          /\ twin.mongo[u] = twin.portable[u]

\* C38: when save_games or insert_game is given only games whose game_id is
\* already stored, and every player's games_played was the number of
\* distinct stored games the player took part in, it still is afterwards.
ResaveNow ==
    /\ pc = "games" /\ Len(observed') = Len(observed) + 1
    /\ arg'.op \in {"save_games", "insert_game"}
    /\ \A i \in 1..Len(arg'.args) : game_exists(games, arg'.args[i].game_id)

TookPart(row, u) ==
    IF backend = "mongo" THEN u \in {row.white, row.black}
    ELSE u \in {row.white_user, row.black_user}

DistinctGames(coll, u) ==
    Cardinality({coll[i].game_id : i \in {j \in 1..Len(coll) : TookPart(coll[j], u)}})

CountsGames(pstore, coll) ==
    \A u \in DOMAIN pstore : pstore[u].games_played = DistinctGames(coll, u)

C38_ResaveIsNoObservation ==
    [][(ResaveNow /\ CountsGames(players, games)) => CountsGames(players', games')]_vars

====
